---- MODULE Spec2Model ----
(***************************************************************************)
(* GDSL delta engine (src/src/gdsl/diff.c): gdsl_diff, gdsl_patch,         *)
(* gdsl_read_changed_set and gdsl_diff_result_destroy as a state machine   *)
(* over the caller's buffers, one gdsl_diff_result_t and the malloc heap.  *)
(*                                                                         *)
(* Sizes are scaled: the arithmetic of the code is kept, the page size and *)
(* the width of size_t are small numbers (see the bounds below).           *)
(***************************************************************************)
EXTENDS Integers, Sequences, FiniteSets, TLC

(***************************************************************************)
(* Bounds of the model.                                                    *)
(***************************************************************************)
\* GDSL_DEFAULT_PAGE_SIZE is 4096u in diff.c:8; the model scales it down.
\* Every formula of the code is kept parametric in it.
GDSL_DEFAULT_PAGE_SIZE == 2
\* Longest base / target handed to gdsl_diff: two pages, the last one full
\* or partial.
MaxLen == 4
\* SIZE_MAX of <limits.h>, scaled: checked_mul / checked_add overflow above it.
SIZE_MAX == 15
\* Modulus of the (uint32_t) cast, scaled down from 2^32; every chunk count
\* the model reaches is below it.
UINT32_RANGE == 4096
\* Number of blocks the heap can hold; malloc fails when none is left.
HeapBlocks == 3
\* Largest capacity of the array handed to gdsl_read_changed_set.
MaxPages == 3
\* Consecutive gdsl_diff_result_destroy calls on one result.
MaxDestroys == 2
\* Longest base and largest header.target_length of a hand-built diff given
\* to gdsl_patch.
MaxPatchLen == 4
\* Largest in-range page_index of a hand-built chunk.
MaxPageIndex == 2
\* Largest in-range data_offset of a hand-built chunk.
MaxDataOffset == 1

\* Capacity of a report's diagnostics array (64 in verify.h), scaled down so
\* that streams of a few bytes fill it.
GDSL_VERIFY_MAX_DIAGNOSTICS == 3
\* Longest stream of arbitrary bytes handed to gdsl_verify.
MaxStreamLen == 3
\* Longest run of arbitrary bytes that follows a repeated pattern.
MaxSuffixLen == 2

(***************************************************************************)
(* Program constants.                                                      *)
(***************************************************************************)
GDSL_DIFF_VERSION == 1
NULL == 0

\* gdsl_phase_t
GDSL_PHASE_BUILD == 0
GDSL_PHASE_RECORD == 1
GDSL_PHASE_SUBMITTED == 2
GDSL_PHASE_IDLE == 3
GDSL_PHASE_FINISHED == 4

\* gdsl_domain_t
GDSL_DOMAIN_HOST == 0
GDSL_DOMAIN_DEVICE == 1

\* gdsl_opcode_t
GDSL_OPCODE_NOP == 0
GDSL_OPCODE_BEGIN_STREAM == 1
GDSL_OPCODE_BARRIER == 2
GDSL_OPCODE_SUBMIT == 3
GDSL_OPCODE_FENCE_WAIT == 4
GDSL_OPCODE_END_STREAM == 5
GDSL_OPCODE_END_PROGRAM == 6
GDSL_OPCODE_SNAPSHOT_BEGIN == 7
GDSL_OPCODE_SNAPSHOT_END == 8
GDSL_OPCODE_CHECKPOINT == 9

\* gdsl_verify_severity_t
GDSL_VERIFY_SEVERITY_INFO == 0
GDSL_VERIFY_SEVERITY_WARNING == 1
GDSL_VERIFY_SEVERITY_ERROR == 2

\* gdsl_verify_level_t
GDSL_VERIFY_LEVEL_SYNTAX == 0
GDSL_VERIFY_LEVEL_PHASE == 1
GDSL_VERIFY_LEVEL_DOMAIN == 2

\* A byte gdsl_opcode_table has no entry for (0xFF in tests/test_verify.c).
UNKNOWN_OPCODE == 255

VARIABLES
    base,           \* caller's base buffer: [null, bytes]
    base_length,    \* the length passed with it
    target,         \* caller's target buffer: [null, bytes]
    target_length,  \* the length passed with it
    out,            \* the gdsl_diff_result_t the caller holds
    mem,            \* the heap: live block id -> contents
    bad_free,       \* free() was called on a block that is not live
    rc_diff,        \* return value of the last gdsl_diff
    diff_ret,       \* which return statement of gdsl_diff was taken
    out_buffer,     \* caller's *out_buffer of gdsl_patch (block id or NULL)
    out_length,     \* caller's *out_length of gdsl_patch
    rc_patch,       \* return value of the last gdsl_patch
    patch_ret,      \* which return statement of gdsl_patch was taken
    out_pages,      \* caller's page array of gdsl_read_changed_set: [null, elems]
    out_count,      \* caller's *out_count
    rc_read,        \* return value of the last gdsl_read_changed_set
    read_ret,       \* which return statement of gdsl_read_changed_set was taken
    ndestroy,       \* gdsl_diff_result_destroy calls since the last gdsl_diff
    stream,         \* caller's instruction stream: [null, bytes]
    stream_length,  \* the length passed with it
    verify          \* level -> the gdsl_verify call on stream at that level:
                    \* its position, its locals and the caller's report

vars == <<base, base_length, target, target_length, out, mem, bad_free,
          rc_diff, diff_ret, out_buffer, out_length, rc_patch, patch_ret,
          out_pages, out_count, rc_read, read_ret, ndestroy,
          stream, stream_length, verify>>

inputs == <<base, base_length, target, target_length>>
patch_locals == <<out_buffer, out_length, rc_patch, patch_ret>>
read_locals == <<out_pages, out_count, rc_read, read_ret>>
diff_locals == <<rc_diff, diff_ret>>
verify_vars == <<stream, stream_length, verify>>

(***************************************************************************)
(* Helpers of diff.c.                                                      *)
(***************************************************************************)
page_count_for_length(length, page_size) ==
    IF length = 0 THEN 0 ELSE (length + page_size - 1) \div page_size

min_size(a, b) == IF a < b THEN a ELSE b

\* [ok, value]: ok is FALSE where the C function returns -1.
checked_mul(a, b) ==
    IF a = 0 \/ b = 0 THEN [ok |-> TRUE, value |-> 0]
    ELSE IF a > SIZE_MAX \div b THEN [ok |-> FALSE, value |-> 0]
    ELSE [ok |-> TRUE, value |-> a * b]

checked_add(a, b) ==
    IF a > SIZE_MAX - b THEN [ok |-> FALSE, value |-> 0]
    ELSE [ok |-> TRUE, value |-> a + b]

to_uint32(n) == n % UINT32_RANGE

(***************************************************************************)
(* The heap: malloc and free of <stdlib.h> as the code uses them.          *)
(***************************************************************************)
Blocks == 1..HeapBlocks

\* The block malloc returns in heap h: NULL when the allocation fails (ok is
\* the environment's choice) or no block is left.
malloc(h, ok) ==
    IF ok /\ (Blocks \ DOMAIN h) # {}
    THEN CHOOSE b \in Blocks \ DOMAIN h : \A c \in Blocks \ DOMAIN h : b <= c
    ELSE NULL

\* Heap h with block p holding contents.
store(h, p, contents) ==
    [b \in DOMAIN h \cup {p} |-> IF b = p THEN contents ELSE h[b]]

\* free(p): [mem, bad]. free(NULL) does nothing; freeing a block that is not
\* live is undefined behaviour, recorded in bad.
free(h, p) ==
    IF p = NULL THEN [mem |-> h, bad |-> FALSE]
    ELSE IF p \in DOMAIN h
    THEN [mem |-> [b \in DOMAIN h \ {p} |-> h[b]], bad |-> FALSE]
    ELSE [mem |-> h, bad |-> TRUE]

(***************************************************************************)
(* gdsl_diff: the page scan (the body shared by both passes).              *)
(***************************************************************************)
max_length == IF base_length > target_length THEN base_length ELSE target_length

total_pages == page_count_for_length(max_length, GDSL_DEFAULT_PAGE_SIZE)

page_offset(page_index) == page_index * GDSL_DEFAULT_PAGE_SIZE

page_end(page_index) ==
    IF page_offset(page_index) + GDSL_DEFAULT_PAGE_SIZE > max_length
    THEN max_length
    ELSE page_offset(page_index) + GDSL_DEFAULT_PAGE_SIZE

span(page_index) == page_end(page_index) - page_offset(page_index)

target_span(page_index) ==
    IF span(page_index) = 0 THEN 0
    ELSE IF page_offset(page_index) < target_length
    THEN min_size(span(page_index), target_length - page_offset(page_index))
    ELSE 0

base_available(page_index) ==
    IF page_offset(page_index) < base_length
    THEN min_size(target_span(page_index), base_length - page_offset(page_index))
    ELSE 0

target_available(page_index) ==
    IF ~target.null /\ target_span(page_index) > 0
    THEN target_span(page_index)
    ELSE 0

base_byte(page_index, i) ==
    IF i < base_available(page_index)
    THEN base.bytes[page_offset(page_index) + i + 1]
    ELSE 0

target_byte(page_index, i) ==
    IF i < target_available(page_index)
    THEN target.bytes[page_offset(page_index) + i + 1]
    ELSE 0

\* Mutant of changed: only the first byte of the page is compared.
changed_first_byte(page_index) ==
    /\ target_span(page_index) > 0
    /\ base_byte(page_index, 0) # target_byte(page_index, 0)

changed(page_index) ==
    \E i \in 0..(target_span(page_index) - 1) :
        base_byte(page_index, i) # target_byte(page_index, i)

\* First pass: [chunk_count, payload_size].
RECURSIVE count_pass(_, _)
count_pass(page_index, acc) ==
    IF page_index >= total_pages THEN acc
    ELSE count_pass(page_index + 1,
            IF changed(page_index)
            THEN [chunk_count |-> acc.chunk_count + 1,
                  payload_size |-> acc.payload_size + target_span(page_index)]
            ELSE acc)

\* Mutant of emit_chunk: the length is a whole page, also for the last page.
emit_chunk_full_page(page_index, payload_offset) ==
    [page_index |-> page_index,
     length |-> GDSL_DEFAULT_PAGE_SIZE,
     data_offset |-> payload_offset]

\* Mutant of emit_chunk: data_offset is the offset of the page in target.
emit_chunk_at_page_offset(page_index, payload_offset) ==
    [page_index |-> page_index,
     length |-> target_span(page_index),
     data_offset |-> page_offset(page_index)]

\* The chunk the second pass writes for a changed page.
emit_chunk(page_index, payload_offset) ==
    [page_index |-> page_index,
     length |-> target_span(page_index),
     data_offset |-> payload_offset]

\* Mutant of emit_bytes: the payload is copied from base.
emit_bytes_from_base(page_index) ==
    [i \in 1..target_span(page_index) |-> base_byte(page_index, i - 1)]

\* The bytes the second pass copies into the payload for a changed page.
emit_bytes(page_index) ==
    [i \in 1..target_span(page_index) |-> target_byte(page_index, i - 1)]

\* Second pass: [chunks, payload]; emitted is Len(chunks), payload_offset is
\* Len(payload).
RECURSIVE emit_pass(_, _)
emit_pass(page_index, acc) ==
    IF page_index >= total_pages THEN acc
    ELSE emit_pass(page_index + 1,
            IF changed(page_index)
            THEN [chunks |-> Append(acc.chunks,
                                    emit_chunk(page_index, Len(acc.payload))),
                  payload |-> acc.payload \o emit_bytes(page_index)]
            ELSE acc)

(***************************************************************************)
(* gdsl_diff.                                                              *)
(***************************************************************************)
\* The contents of a block malloc has just returned: nothing has been
\* written to it, so a read would give an indeterminate value.
Indeterminate == "indeterminate"

fresh_block(n) == [i \in 1..n |-> Indeterminate]

\* An array after its first Len(written) elements have been assigned.
assign_prefix(arr, written) ==
    [i \in 1..Len(arr) |-> IF i <= Len(written) THEN written[i] ELSE arr[i]]

\* *out after memset and the header assignments.
cleared_result ==
    [header |-> [version |-> GDSL_DIFF_VERSION,
                 page_size |-> GDSL_DEFAULT_PAGE_SIZE,
                 flags |-> 0,
                 chunk_count |-> 0,
                 target_length |-> target_length],
     chunks |-> NULL,
     chunk_count |-> 0,
     payload |-> NULL,
     payload_length |-> 0]

\* ensure_capacity: [rc, out, mem]. ok_chunks and ok_payload say whether the
\* first and the second malloc succeed.
ensure_capacity(o, h, chunk_count, payload_size, ok_chunks, ok_payload) ==
    LET c == malloc(h, ok_chunks)
        h1 == IF c = NULL THEN h ELSE store(h, c, fresh_block(chunk_count))
        p == malloc(h1, ok_payload)
        h2 == IF p = NULL THEN h1 ELSE store(h1, p, fresh_block(payload_size))
    IN  IF c = NULL /\ chunk_count > 0
        THEN [rc |-> -1, out |-> [o EXCEPT !.chunks = NULL], mem |-> h]
        ELSE IF p = NULL /\ payload_size > 0
        THEN [rc |-> -1,
              out |-> [o EXCEPT !.chunks = NULL, !.payload = NULL],
              mem |-> free(h1, c).mem]
        ELSE [rc |-> 0,
              out |-> [o EXCEPT !.chunks = c, !.payload = p,
                                !.chunk_count = chunk_count,
                                !.payload_length = payload_size],
              mem |-> h2]

\* gdsl_diff from the second pass on, given what ensure_capacity returned:
\* [out, mem].
fill_result(cap) ==
    LET e == emit_pass(0, [chunks |-> <<>>, payload |-> <<>>])
        emitted == Len(e.chunks)
        payload_offset == Len(e.payload)
        h1 == store(cap.mem, cap.out.chunks,
                    assign_prefix(cap.mem[cap.out.chunks], e.chunks))
        h2 == store(h1, cap.out.payload,
                    assign_prefix(h1[cap.out.payload], e.payload))
        o == [cap.out EXCEPT !.chunk_count = emitted,
                             !.header.chunk_count = to_uint32(emitted),
                             !.payload_length = payload_offset]
    IN  IF payload_offset = 0
        THEN [out |-> [o EXCEPT !.payload = NULL],
              mem |-> free(h2, cap.out.payload).mem]
        ELSE [out |-> o, mem |-> h2]

\* gdsl_diff(base, base_length, target, target_length, out): [rc, ret, out, mem].
gdsl_diff(ok_chunks, ok_payload) ==
    LET cnt == count_pass(0, [chunk_count |-> 0, payload_size |-> 0])
        cap == ensure_capacity(cleared_result, mem, cnt.chunk_count,
                               cnt.payload_size, ok_chunks, ok_payload)
        full == fill_result(cap)
    IN  IF (base.null /\ base_length > 0) \/ (target.null /\ target_length > 0)
        THEN [rc |-> -1, ret |-> "null_input", out |-> cleared_result, mem |-> mem]
        ELSE IF cnt.chunk_count = 0
        THEN [rc |-> 0, ret |-> "unchanged", out |-> cleared_result, mem |-> mem]
        ELSE IF cap.rc # 0
        THEN [rc |-> -1, ret |-> "oom", out |-> cap.out, mem |-> cap.mem]
        ELSE [rc |-> 0, ret |-> "done",
              out |-> full.out, mem |-> full.mem]

(***************************************************************************)
(* gdsl_diff_result_destroy.                                               *)
(***************************************************************************)
\* Mutant of gdsl_diff_result_destroy: the buffers are freed but the
\* pointers are left as they were.
destroy_keeps_pointers(result, h) ==
    LET f1 == free(h, result.chunks)
        f2 == free(f1.mem, result.payload)
    IN  [out |-> [result EXCEPT !.chunk_count = 0,
                                !.payload_length = 0,
                                !.header.chunk_count = 0,
                                !.header.target_length = 0],
         mem |-> f2.mem,
         bad |-> f1.bad \/ f2.bad]

\* [out, mem, bad].
gdsl_diff_result_destroy(result, h) ==
    LET f1 == free(h, result.chunks)
        f2 == free(f1.mem, result.payload)
    IN  [out |-> [result EXCEPT !.chunks = NULL,
                                !.payload = NULL,
                                !.chunk_count = 0,
                                !.payload_length = 0,
                                !.header.chunk_count = 0,
                                !.header.target_length = 0],
         mem |-> f2.mem,
         bad |-> f1.bad \/ f2.bad]

(***************************************************************************)
(* gdsl_patch.                                                             *)
(***************************************************************************)
\* size_t page_size = diff->header.page_size ? ... : GDSL_DEFAULT_PAGE_SIZE
patch_page_size(d) ==
    IF d.header.page_size # 0 THEN d.header.page_size ELSE GDSL_DEFAULT_PAGE_SIZE

\* The checks on the chunk array and the payload made before the buffer is
\* allocated: the name of the failing return, or "ok".
patch_precheck(d, h) ==
    IF d.chunk_count > 0
    THEN IF d.chunks = NULL THEN "null_chunks"
         ELSE IF (d.payload_length = 0 \/ d.payload = NULL)
                 /\ \E i \in 1..d.chunk_count : h[d.chunks][i].length > 0
         THEN "no_payload"
         ELSE "ok"
    ELSE "ok"

\* Mutant of patch_buffer_init: the buffer is zero-filled and base is not
\* copied.
patch_buffer_zeroed(tlen) == [k \in 1..tlen |-> 0]

\* The buffer after memset and the copy of min(base_length, target_length)
\* bytes of base.
patch_buffer_init(tlen) ==
    [k \in 1..tlen |->
        IF ~base.null /\ base_length > 0 /\ k <= min_size(base_length, tlen)
        THEN base.bytes[k]
        ELSE 0]

\* memcpy(dst + at, src + from, n) on arrays.
memcpy(dst, at, src, from, n) ==
    [k \in 1..Len(dst) |->
        IF at < k /\ k <= at + n THEN src[from + (k - at)] ELSE dst[k]]

\* One turn of the chunk loop: [ret, buffer]; ret is "ok" or the name of the
\* failing return.
apply_chunk(d, h, buffer, chunk) ==
    LET tlen == d.header.target_length
        po == checked_mul(chunk.page_index, patch_page_size(d))
        eo == checked_add(po.value, chunk.length)
        pe == checked_add(chunk.data_offset, chunk.length)
    IN  IF ~po.ok THEN [ret |-> "mul_overflow", buffer |-> buffer]
        ELSE IF po.value > tlen THEN [ret |-> "page_offset_range", buffer |-> buffer]
        ELSE IF ~eo.ok THEN [ret |-> "add_overflow", buffer |-> buffer]
        ELSE IF eo.value > tlen THEN [ret |-> "end_offset_range", buffer |-> buffer]
        ELSE IF chunk.length > 0
        THEN IF d.payload = NULL \/ chunk.data_offset > d.payload_length
             THEN [ret |-> "payload_missing", buffer |-> buffer]
             ELSE IF ~pe.ok THEN [ret |-> "payload_overflow", buffer |-> buffer]
             ELSE IF pe.value > d.payload_length
             THEN [ret |-> "payload_underrun", buffer |-> buffer]
             ELSE [ret |-> "ok",
                   buffer |-> memcpy(buffer, po.value, h[d.payload],
                                     chunk.data_offset, chunk.length)]
        ELSE [ret |-> "ok", buffer |-> buffer]

\* The chunk loop from chunk i on (chunks are numbered from 1 here).
RECURSIVE apply_chunks(_, _, _, _)
apply_chunks(d, h, buffer, i) ==
    IF i > d.chunk_count THEN [ret |-> "done", buffer |-> buffer]
    ELSE LET r == apply_chunk(d, h, buffer, h[d.chunks][i])
         IN  IF r.ret # "ok" THEN r
             ELSE apply_chunks(d, h, r.buffer, i + 1)

\* Mutant of patch_abort: the buffer is not freed before the return.
patch_abort_leak(h, buffer) == h

\* free(buffer); return -1; in the chunk loop: the heap afterwards.
patch_abort(h, buffer) == free(h, buffer).mem

\* gdsl_patch(base, base_length, diff, out_buffer, out_length):
\* [rc, ret, out_buffer, out_length, mem]. null_arg: diff, out_buffer or
\* out_length is NULL; ok_buffer: the malloc succeeds.
gdsl_patch(d, h, null_arg, ok_buffer) ==
    LET tlen == d.header.target_length
        pre == patch_precheck(d, h)
        buffer == malloc(h, ok_buffer)
        run == apply_chunks(d, h, patch_buffer_init(tlen), 1)
        fail(ret) == [rc |-> -1, ret |-> ret, out_buffer |-> NULL,
                      out_length |-> 0, mem |-> h]
    IN  IF null_arg
        THEN [rc |-> -1, ret |-> "null_arg", out_buffer |-> out_buffer,
              out_length |-> out_length, mem |-> h]
        ELSE IF pre # "ok" THEN fail(pre)
        ELSE IF tlen = 0
        THEN IF d.chunk_count # 0 THEN fail("empty_target_chunks")
             ELSE [rc |-> 0, ret |-> "empty_target", out_buffer |-> NULL,
                   out_length |-> 0, mem |-> h]
        ELSE IF buffer = NULL THEN fail("oom")
        ELSE IF run.ret # "done"
        THEN [rc |-> -1, ret |-> run.ret, out_buffer |-> NULL, out_length |-> 0,
              mem |-> patch_abort(store(h, buffer, run.buffer), buffer)]
        ELSE [rc |-> 0, ret |-> "done", out_buffer |-> buffer,
              out_length |-> tlen, mem |-> store(h, buffer, run.buffer)]

(***************************************************************************)
(* gdsl_read_changed_set.                                                  *)
(***************************************************************************)
\* Mutant of copy_page_indices: each slot receives its own position instead
\* of the chunk's page_index.
copy_positions(d, h, elems, unique_pages) ==
    [i \in 1..Len(elems) |-> IF i <= unique_pages THEN i - 1 ELSE elems[i]]

\* for (i = 0; i < unique_pages; ++i) out_pages[i] = diff->chunks[i].page_index;
copy_page_indices(d, h, elems, unique_pages) ==
    [i \in 1..Len(elems) |->
        IF i <= unique_pages THEN h[d.chunks][i].page_index ELSE elems[i]]

\* gdsl_read_changed_set(diff, out_pages, max_pages, out_count):
\* [rc, ret, out_pages, out_count]. pages is the caller's array ([null, elems])
\* and max_pages its capacity; null_arg: diff or out_count is NULL.
gdsl_read_changed_set(d, h, pages, max_pages, null_arg) ==
    LET unique_pages == d.chunk_count
        written == [pages EXCEPT !.elems =
                      copy_page_indices(d, h, pages.elems, unique_pages)]
    IN  IF null_arg
        THEN [rc |-> -1, ret |-> "null_arg", out_pages |-> pages,
              out_count |-> out_count]
        ELSE IF d.chunk_count > 0 /\ d.chunks = NULL
        THEN [rc |-> -1, ret |-> "null_chunks", out_pages |-> pages,
              out_count |-> out_count]
        ELSE IF ~pages.null /\ max_pages < unique_pages
        THEN [rc |-> -1, ret |-> "too_small", out_pages |-> pages,
              out_count |-> out_count]
        ELSE [rc |-> 0, ret |-> "done",
              out_pages |-> IF pages.null THEN pages ELSE written,
              out_count |-> unique_pages]

(***************************************************************************)
(* The caller: its buffers, its locals, and the order of its calls.        *)
(***************************************************************************)
\* Byte values of the buffers handed to gdsl_diff.
Byte == 0..1

\* A pointer argument with the bytes behind it; a NULL pointer has none.
NullBuffer == [null |-> TRUE, bytes |-> <<>>]

Buffer(bytes) == [null |-> FALSE, bytes |-> bytes]

\* (pointer, length) pairs a caller passes to gdsl_diff: a buffer with its
\* length, or NULL with any length.
DiffArgs ==
    {[buf |-> Buffer(s), length |-> Len(s)] :
        s \in UNION {[1..n -> Byte] : n \in 0..MaxLen}}
    \cup {[buf |-> NullBuffer, length |-> n] : n \in 0..MaxLen}

\* The caller's page array when it passes changed_pages == NULL.
NullPages == [null |-> TRUE, elems |-> <<>>]

\* The caller's result object before its first gdsl_diff: every field zero,
\* as the memset at the head of gdsl_diff leaves it.
zero_result ==
    [header |-> [version |-> 0, page_size |-> 0, flags |-> 0,
                 chunk_count |-> 0, target_length |-> 0],
     chunks |-> NULL,
     chunk_count |-> 0,
     payload |-> NULL,
     payload_length |-> 0]

\* What an element of the caller's page array holds before the call.
Unwritten == 0 - 1

\* Levels at which the caller verifies its stream.
Levels == GDSL_VERIFY_LEVEL_SYNTAX..GDSL_VERIFY_LEVEL_DOMAIN

\* gdsl_state_reset: phase Build, domain Host, no snapshot.
gdsl_state_reset ==
    [phase |-> GDSL_PHASE_BUILD,
     domain |-> GDSL_DOMAIN_HOST,
     snapshot_active |-> FALSE]

\* gdsl_verify_report_t report; before the call: no field has been written.
unwritten_report ==
    [success |-> Indeterminate,
     instruction_count |-> Indeterminate,
     error_count |-> Indeterminate,
     warning_count |-> Indeterminate,
     info_count |-> Indeterminate,
     diagnostic_count |-> Indeterminate,
     diagnostics |-> <<>>]

\* A gdsl_verify call that has not been made: the locals of the call do not
\* exist yet and the caller's report is unwritten.
uncalled_run ==
    [pc |-> "uncalled",
     rc |-> 0,
     offset |-> 0,
     instruction_index |-> 0,
     state |-> gdsl_state_reset,
     report |-> unwritten_report]

\* No gdsl_verify call has been made.
VerifyUncalled ==
    /\ stream = NullBuffer
    /\ stream_length = 0
    /\ verify = [level \in Levels |-> uncalled_run]

\* The caller's locals before a call: patched = NULL, patched_length = 0,
\* changed_count = 0.
LocalsInit ==
    /\ out_buffer = NULL
    /\ out_length = 0
    /\ rc_patch = 0
    /\ patch_ret = "uncalled"
    /\ out_pages = NullPages
    /\ out_count = 0
    /\ rc_read = 0
    /\ read_ret = "uncalled"

\* The caller uses the outputs of one call and releases them before the next.
Pristine == patch_ret = "uncalled" /\ read_ret = "uncalled"

Init ==
    /\ \E b \in DiffArgs, t \in DiffArgs :
          /\ base = b.buf
          /\ base_length = b.length
          /\ target = t.buf
          /\ target_length = t.length
    /\ out = zero_result
    /\ mem = <<>>
    /\ bad_free = FALSE
    /\ rc_diff = 0
    /\ diff_ret = "uncalled"
    /\ ndestroy = 0
    /\ LocalsInit
    /\ VerifyUncalled

\* rc = gdsl_diff(base, base_length, target, target_length, &diff), on a
\* result that owns no buffers; with out == NULL the call only returns -1.
Diff ==
    /\ Pristine
    /\ out.chunks = NULL /\ out.payload = NULL
    /\ \E out_null \in BOOLEAN, ok_chunks \in BOOLEAN, ok_payload \in BOOLEAN :
          LET r == gdsl_diff(ok_chunks, ok_payload)
          IN  \* one call per outcome: the mallocs of a refused call or after a
              \* failed malloc do not happen
              /\ out_null => (ok_chunks /\ ok_payload)
              /\ ~ok_chunks => ok_payload
              /\ IF out_null
                 THEN /\ rc_diff' = -1
                      /\ diff_ret' = "null_out"
                      /\ UNCHANGED <<out, mem, ndestroy>>
                 ELSE /\ rc_diff' = r.rc
                      /\ diff_ret' = r.ret
                      /\ out' = r.out
                      /\ mem' = r.mem
                      /\ ndestroy' = 0
    /\ UNCHANGED <<inputs, verify_vars, bad_free, patch_locals, read_locals>>

\* gdsl_diff_result_destroy(&diff); with result == NULL the call does nothing.
Destroy ==
    /\ Pristine
    /\ ndestroy < MaxDestroys
    /\ \E result_null \in BOOLEAN :
          LET r == gdsl_diff_result_destroy(out, mem)
          IN  IF result_null
              THEN UNCHANGED <<out, mem, bad_free, ndestroy>>
              ELSE /\ out' = r.out
                   /\ mem' = r.mem
                   /\ bad_free' = (bad_free \/ r.bad)
                   /\ ndestroy' = ndestroy + 1
    /\ UNCHANGED <<inputs, verify_vars, diff_locals, patch_locals, read_locals>>

\* rc = gdsl_patch(base, base_length, &diff, &patched, &patched_length).
Patch ==
    /\ Pristine
    /\ \E null_arg \in BOOLEAN, ok_buffer \in BOOLEAN :
          LET r == gdsl_patch(out, mem, null_arg, ok_buffer)
          IN  /\ rc_patch' = r.rc
              /\ patch_ret' = r.ret
              /\ out_buffer' = r.out_buffer
              /\ out_length' = r.out_length
              /\ mem' = r.mem
    /\ UNCHANGED <<inputs, verify_vars, out, bad_free, diff_locals, read_locals, ndestroy>>

\* rc = gdsl_read_changed_set(&diff, changed_pages, max_pages, &changed_count)
\* with an array of max_pages elements, or with changed_pages == NULL and
\* max_pages == 0.
ReadChangedSet ==
    /\ Pristine
    /\ \E max_pages \in 0..MaxPages, pages_null \in BOOLEAN, null_arg \in BOOLEAN :
          LET pages == IF pages_null THEN NullPages
                       ELSE [null |-> FALSE,
                             elems |-> [i \in 1..max_pages |-> Unwritten]]
              r == gdsl_read_changed_set(out, mem, pages, max_pages, null_arg)
          IN  /\ pages_null => max_pages = 0
              /\ null_arg => pages_null
              /\ rc_read' = r.rc
              /\ read_ret' = r.ret
              /\ out_pages' = r.out_pages
              /\ out_count' = r.out_count
    /\ UNCHANGED <<inputs, verify_vars, out, mem, bad_free, diff_locals, patch_locals, ndestroy>>

\* The caller holds a result that gdsl_diff returned with success (it may
\* have been destroyed since).
HasResult == diff_ret \in {"unchanged", "done"}

PatchResult == HasResult /\ Patch

ReadResult == HasResult /\ ReadChangedSet

\* free(patched); and the locals are set up again for the next call.
Release ==
    /\ ~Pristine
    /\ mem' = free(mem, out_buffer).mem
    /\ bad_free' = (bad_free \/ free(mem, out_buffer).bad)
    /\ out_buffer' = NULL
    /\ out_length' = 0
    /\ rc_patch' = 0
    /\ patch_ret' = "uncalled"
    /\ out_pages' = NullPages
    /\ out_count' = 0
    /\ rc_read' = 0
    /\ read_ret' = "uncalled"
    /\ UNCHANGED <<inputs, verify_vars, out, diff_locals, ndestroy>>

Next == Diff \/ Destroy \/ PatchResult \/ ReadResult \/ Release

Spec == Init /\ [][Next]_vars

(***************************************************************************)
(* gdsl_patch on a diff the caller built itself (the struct is public):    *)
(* any header and chunk fields, over arrays that hold what the counts say. *)
(***************************************************************************)
\* fill_pattern of tests/test_diff.c: buffer[i] = (uint8_t)(seed + (uint8_t)i * 17u).
fill_pattern(length, seed) ==
    [i \in 1..length |-> (seed + (((i - 1) % 256) * 17)) % 256]

\* Field values of a hand-built chunk: in range, just out of range, SIZE_MAX.
HandBuiltChunks ==
    [page_index : (0..MaxPageIndex) \cup {SIZE_MAX},
     length : (0..(GDSL_DEFAULT_PAGE_SIZE + 1)) \cup {SIZE_MAX},
     data_offset : (0..MaxDataOffset) \cup {SIZE_MAX}]

\* A chunk that replaces the start of page 0 from the start of the payload.
LeadingChunks ==
    [page_index : {0}, length : 1..GDSL_DEFAULT_PAGE_SIZE, data_offset : {0}]

\* No chunk, any one chunk, or a leading chunk followed by any chunk.
HandBuiltChunkLists ==
    {<<>>} \cup {<<c>> : c \in HandBuiltChunks}
           \cup {<<l, c>> : l \in LeadingChunks, c \in HandBuiltChunks}

\* The payload of a hand-built diff: GDSL_DEFAULT_PAGE_SIZE + 1 bytes.
hand_built_payload == fill_pattern(GDSL_DEFAULT_PAGE_SIZE + 1, 42)

\* (payload pointer, payload_length) of a hand-built diff: no payload, a
\* NULL payload with a length, or the payload with its length.
HandBuiltPayloads ==
    {[present |-> FALSE, payload_length |-> 0],
     [present |-> FALSE, payload_length |-> Len(hand_built_payload)],
     [present |-> TRUE, payload_length |-> Len(hand_built_payload)]}

\* (chunks pointer, chunk_count) of a hand-built diff: a chunk array with its
\* count, or a NULL array with a count of 1.
HandBuiltChunkArrays ==
    {[present |-> ls # <<>>, elems |-> ls, chunk_count |-> Len(ls)] :
        ls \in HandBuiltChunkLists}
    \cup {[present |-> FALSE, elems |-> <<>>, chunk_count |-> 1]}

\* (base, base_length) pairs a caller passes to gdsl_patch.
PatchArgs ==
    {[buf |-> Buffer(fill_pattern(n, 1)), length |-> n] : n \in 0..MaxPatchLen}
    \cup {[buf |-> NullBuffer, length |-> n] : n \in {0, MaxPatchLen}}

\* The struct and the heap of a hand-built diff: the chunk array is block 1,
\* the payload block 2.
hand_built_result(ca, pl, page_size, tlen) ==
    [header |-> [version |-> GDSL_DIFF_VERSION,
                 page_size |-> page_size,
                 flags |-> 0,
                 chunk_count |-> to_uint32(ca.chunk_count),
                 target_length |-> tlen],
     chunks |-> IF ca.present THEN 1 ELSE NULL,
     chunk_count |-> ca.chunk_count,
     payload |-> IF pl.present THEN 2 ELSE NULL,
     payload_length |-> pl.payload_length]

hand_built_mem(ca, pl) ==
    [b \in (IF ca.present THEN {1} ELSE {}) \cup (IF pl.present THEN {2} ELSE {})
        |-> IF b = 1 THEN ca.elems ELSE hand_built_payload]

InitPatch ==
    /\ \E b \in PatchArgs :
          /\ base = b.buf
          /\ base_length = b.length
    /\ target = NullBuffer
    /\ target_length = 0
    /\ \E ca \in HandBuiltChunkArrays, pl \in HandBuiltPayloads,
          page_size \in {0, GDSL_DEFAULT_PAGE_SIZE}, tlen \in 0..MaxPatchLen :
          /\ out = hand_built_result(ca, pl, page_size, tlen)
          /\ mem = hand_built_mem(ca, pl)
    /\ bad_free = FALSE
    /\ rc_diff = 0
    /\ diff_ret = "uncalled"
    /\ ndestroy = 0
    /\ LocalsInit
    /\ VerifyUncalled

NextPatch == Patch \/ Release

SpecPatch == InitPatch /\ [][NextPatch]_vars

(***************************************************************************)
(* gdsl_verify: the opcode table and the report.                           *)
(***************************************************************************)
\* The opcodes gdsl_opcode_table has an entry for.
KnownOpcodes == GDSL_OPCODE_NOP..GDSL_OPCODE_CHECKPOINT

\* The name member of the table's entries, by opcode (index opcode + 1).
opcode_names ==
    <<"NOP", "BEGIN_STREAM", "BARRIER", "SUBMIT", "FENCE_WAIT", "END_STREAM",
      "END_PROGRAM", "SNAPSHOT_BEGIN", "SNAPSHOT_END", "CHECKPOINT">>

\* The name member of an entry the initializer leaves out: a NULL pointer.
NoName == ""

\* gdsl_opcode_table[opcode]: entries the initializer leaves out are zero.
gdsl_opcode_table(opcode) ==
    IF opcode \in KnownOpcodes
    THEN [name |-> opcode_names[opcode + 1], size |-> 1]
    ELSE [name |-> NoName, size |-> 0]

\* printf's %02x for a byte.
HexDigits ==
    <<"0", "1", "2", "3", "4", "5", "6", "7", "8", "9",
      "a", "b", "c", "d", "e", "f">>

hex02(byte) == HexDigits[(byte \div 16) + 1] \o HexDigits[(byte % 16) + 1]

\* One add_diagnostic call as the code makes it: its severity and its
\* formatted message (every message of verify.c is shorter than
\* GDSL_VERIFY_MAX_MESSAGE, so vsnprintf cuts none).
Raise(severity, message) == [severity |-> severity, message |-> message]

\* Mutant of add_diagnostic: a diagnostic that finds the array full is
\* dropped but still counted by severity.
add_diagnostic_counting_dropped(report, instruction_index, severity, message) ==
    LET stored == report.diagnostic_count < GDSL_VERIFY_MAX_DIAGNOSTICS
        counted ==
            IF severity = GDSL_VERIFY_SEVERITY_ERROR
            THEN [report EXCEPT !.error_count = @ + 1]
            ELSE IF severity = GDSL_VERIFY_SEVERITY_WARNING
            THEN [report EXCEPT !.warning_count = @ + 1]
            ELSE [report EXCEPT !.info_count = @ + 1]
    IN  IF stored
        THEN [counted EXCEPT
                !.diagnostics = Append(@, [instruction_index |-> instruction_index,
                                           severity |-> severity,
                                           message |-> message]),
                !.diagnostic_count = @ + 1]
        ELSE counted

\* add_diagnostic on a non-NULL report; diagnostics holds the first
\* diagnostic_count slots of the array.
add_diagnostic(report, instruction_index, severity, message) ==
    IF report.diagnostic_count >= GDSL_VERIFY_MAX_DIAGNOSTICS
    THEN report
    ELSE LET diag == [instruction_index |-> instruction_index,
                      severity |-> severity,
                      message |-> message]
             stored == [report EXCEPT !.diagnostics = Append(@, diag),
                                      !.diagnostic_count = @ + 1]
         IN  IF severity = GDSL_VERIFY_SEVERITY_ERROR
             THEN [stored EXCEPT !.error_count = @ + 1]
             ELSE IF severity = GDSL_VERIFY_SEVERITY_WARNING
             THEN [stored EXCEPT !.warning_count = @ + 1]
             ELSE [stored EXCEPT !.info_count = @ + 1]

\* The add_diagnostic calls of one instruction, in the order the code makes
\* them.
RECURSIVE add_diagnostics(_, _, _)
add_diagnostics(report, instruction_index, raised) ==
    IF raised = <<>>
    THEN report
    ELSE add_diagnostics(add_diagnostic(report, instruction_index,
                                        Head(raised).severity,
                                        Head(raised).message),
                         instruction_index, Tail(raised))

\* report_transition_error: the diagnostic it raises.
report_transition_error(op, expected) ==
    Raise(GDSL_VERIFY_SEVERITY_ERROR,
          op \o " not allowed in " \o expected \o " phase")

\* The diagnostic a guarded add_diagnostic call raises: none when the guard
\* is false.
When(guard, raise) == IF guard THEN <<raise>> ELSE <<>>

(***************************************************************************)
(* gdsl_verify: the switch on the opcode. Each case gives the diagnostics  *)
(* it raises, in order, and the state it leaves: [raised, state].          *)
(***************************************************************************)
case_BEGIN_STREAM(state, level, name) ==
    [raised |->
        When(level >= GDSL_VERIFY_LEVEL_PHASE /\ state.snapshot_active,
             Raise(GDSL_VERIFY_SEVERITY_ERROR,
                   "cannot BEGIN_STREAM while snapshot is active"))
        \o When(/\ level >= GDSL_VERIFY_LEVEL_PHASE
                /\ state.phase # GDSL_PHASE_BUILD
                /\ state.phase # GDSL_PHASE_IDLE,
                report_transition_error(
                    name,
                    IF state.phase = GDSL_PHASE_RECORD THEN "Record" ELSE "Idle")),
     state |-> [state EXCEPT !.phase = GDSL_PHASE_RECORD]]

\* Mutant of case_BARRIER: the promotion is warned about but not made.
case_BARRIER_warns_only(state, level, name) ==
    [raised |->
        When(level >= GDSL_VERIFY_LEVEL_PHASE
             /\ state.phase # GDSL_PHASE_RECORD,
             report_transition_error(name, "Record"))
        \o When(level >= GDSL_VERIFY_LEVEL_DOMAIN
                /\ state.domain # GDSL_DOMAIN_DEVICE,
                Raise(GDSL_VERIFY_SEVERITY_WARNING,
                      "BARRIER issued outside device domain; assuming implicit promotion")),
     state |-> state]

case_BARRIER(state, level, name) ==
    LET promote == level >= GDSL_VERIFY_LEVEL_DOMAIN
                   /\ state.domain # GDSL_DOMAIN_DEVICE
    IN  [raised |->
            When(level >= GDSL_VERIFY_LEVEL_PHASE
                 /\ state.phase # GDSL_PHASE_RECORD,
                 report_transition_error(name, "Record"))
            \o When(promote,
                    Raise(GDSL_VERIFY_SEVERITY_WARNING,
                          "BARRIER issued outside device domain; assuming implicit promotion")),
         state |-> IF promote
                   THEN [state EXCEPT !.domain = GDSL_DOMAIN_DEVICE]
                   ELSE state]

\* Mutant of case_SUBMIT: the phase is not checked.
case_SUBMIT_any_phase(state, level, name) ==
    [raised |->
        When(level >= GDSL_VERIFY_LEVEL_PHASE /\ state.snapshot_active,
             Raise(GDSL_VERIFY_SEVERITY_ERROR,
                   "cannot SUBMIT inside a snapshot")),
     state |-> [state EXCEPT !.phase = GDSL_PHASE_SUBMITTED,
                             !.domain = GDSL_DOMAIN_DEVICE]]

case_SUBMIT(state, level, name) ==
    [raised |->
        When(level >= GDSL_VERIFY_LEVEL_PHASE
             /\ state.phase # GDSL_PHASE_RECORD,
             report_transition_error(name, "Record"))
        \o When(level >= GDSL_VERIFY_LEVEL_PHASE /\ state.snapshot_active,
                Raise(GDSL_VERIFY_SEVERITY_ERROR,
                      "cannot SUBMIT inside a snapshot")),
     state |-> [state EXCEPT !.phase = GDSL_PHASE_SUBMITTED,
                             !.domain = GDSL_DOMAIN_DEVICE]]

\* Mutant of case_FENCE_WAIT: an illegal FENCE_WAIT is reported and then
\* ignored, the state stays as it was.
case_FENCE_WAIT_if_legal(state, level, name) ==
    LET illegal == level >= GDSL_VERIFY_LEVEL_PHASE
                   /\ state.phase # GDSL_PHASE_SUBMITTED
    IN  [raised |-> When(illegal, report_transition_error(name, "Submitted")),
         state |-> IF illegal
                   THEN state
                   ELSE [state EXCEPT !.phase = GDSL_PHASE_IDLE,
                                      !.domain = GDSL_DOMAIN_HOST]]

case_FENCE_WAIT(state, level, name) ==
    [raised |->
        When(level >= GDSL_VERIFY_LEVEL_PHASE
             /\ state.phase # GDSL_PHASE_SUBMITTED,
             report_transition_error(name, "Submitted")),
     state |-> [state EXCEPT !.phase = GDSL_PHASE_IDLE,
                             !.domain = GDSL_DOMAIN_HOST]]

\* Mutant of case_END_STREAM: END_STREAM in phase Record is an illegal
\* transition, reported as an Error instead of the Warning.
case_END_STREAM_strict(state, level, name) ==
    [raised |->
        When(level >= GDSL_VERIFY_LEVEL_PHASE
             /\ state.phase # GDSL_PHASE_IDLE,
             report_transition_error(name, "Idle")),
     state |-> [state EXCEPT !.phase = GDSL_PHASE_FINISHED]]

case_END_STREAM(state, level, name) ==
    [raised |->
        When(/\ level >= GDSL_VERIFY_LEVEL_PHASE
             /\ state.phase # GDSL_PHASE_IDLE
             /\ state.phase # GDSL_PHASE_RECORD,
             report_transition_error(name, "Idle"))
        \o When(state.phase = GDSL_PHASE_RECORD
                /\ level >= GDSL_VERIFY_LEVEL_PHASE,
                Raise(GDSL_VERIFY_SEVERITY_WARNING,
                      "END_STREAM while GPU work still pending; assuming idle transition")),
     state |-> [state EXCEPT !.phase = GDSL_PHASE_FINISHED]]

case_END_PROGRAM(state, level, name) ==
    [raised |->
        When(level >= GDSL_VERIFY_LEVEL_PHASE
             /\ state.phase # GDSL_PHASE_FINISHED,
             report_transition_error(name, "Finished")),
     state |-> state]

\* Mutant of case_SNAPSHOT_BEGIN: the region is opened only where it is
\* checked, at Domain level.
case_SNAPSHOT_BEGIN_domain_only(state, level, name) ==
    [raised |->
        When(level >= GDSL_VERIFY_LEVEL_DOMAIN /\ state.snapshot_active,
             Raise(GDSL_VERIFY_SEVERITY_ERROR,
                   "nested SNAPSHOT_BEGIN not allowed"))
        \o When(level >= GDSL_VERIFY_LEVEL_DOMAIN
                /\ state.phase # GDSL_PHASE_IDLE,
                report_transition_error(name, "Idle"))
        \o When(level >= GDSL_VERIFY_LEVEL_DOMAIN
                /\ state.domain # GDSL_DOMAIN_HOST,
                Raise(GDSL_VERIFY_SEVERITY_ERROR,
                      "snapshots require host domain but current domain is device")),
     state |-> IF level >= GDSL_VERIFY_LEVEL_DOMAIN
               THEN [state EXCEPT !.snapshot_active = TRUE]
               ELSE state]

case_SNAPSHOT_BEGIN(state, level, name) ==
    [raised |->
        When(level >= GDSL_VERIFY_LEVEL_DOMAIN /\ state.snapshot_active,
             Raise(GDSL_VERIFY_SEVERITY_ERROR,
                   "nested SNAPSHOT_BEGIN not allowed"))
        \o When(level >= GDSL_VERIFY_LEVEL_DOMAIN
                /\ state.phase # GDSL_PHASE_IDLE,
                report_transition_error(name, "Idle"))
        \o When(level >= GDSL_VERIFY_LEVEL_DOMAIN
                /\ state.domain # GDSL_DOMAIN_HOST,
                Raise(GDSL_VERIFY_SEVERITY_ERROR,
                      "snapshots require host domain but current domain is device")),
     state |-> [state EXCEPT !.snapshot_active = TRUE]]

\* Mutant of case_SNAPSHOT_END: the region is reported on but not closed.
case_SNAPSHOT_END_keeps_open(state, level, name) ==
    [raised |->
        When(level >= GDSL_VERIFY_LEVEL_DOMAIN /\ ~state.snapshot_active,
             Raise(GDSL_VERIFY_SEVERITY_ERROR,
                   "SNAPSHOT_END without SNAPSHOT_BEGIN")),
     state |-> state]

case_SNAPSHOT_END(state, level, name) ==
    [raised |->
        When(level >= GDSL_VERIFY_LEVEL_DOMAIN /\ ~state.snapshot_active,
             Raise(GDSL_VERIFY_SEVERITY_ERROR,
                   "SNAPSHOT_END without SNAPSHOT_BEGIN")),
     state |-> [state EXCEPT !.snapshot_active = FALSE]]

case_CHECKPOINT(state, level, name) ==
    [raised |->
        When(level >= GDSL_VERIFY_LEVEL_DOMAIN
             /\ state.phase # GDSL_PHASE_IDLE,
             report_transition_error(name, "Idle")),
     state |-> state]

\* switch (opcode) { ... default: break; }
switch_opcode(opcode, state, level, name) ==
    CASE opcode = GDSL_OPCODE_BEGIN_STREAM -> case_BEGIN_STREAM(state, level, name)
      [] opcode = GDSL_OPCODE_BARRIER -> case_BARRIER(state, level, name)
      [] opcode = GDSL_OPCODE_SUBMIT -> case_SUBMIT(state, level, name)
      [] opcode = GDSL_OPCODE_FENCE_WAIT -> case_FENCE_WAIT(state, level, name)
      [] opcode = GDSL_OPCODE_END_STREAM -> case_END_STREAM(state, level, name)
      [] opcode = GDSL_OPCODE_END_PROGRAM -> case_END_PROGRAM(state, level, name)
      [] opcode = GDSL_OPCODE_SNAPSHOT_BEGIN -> case_SNAPSHOT_BEGIN(state, level, name)
      [] opcode = GDSL_OPCODE_SNAPSHOT_END -> case_SNAPSHOT_END(state, level, name)
      [] opcode = GDSL_OPCODE_CHECKPOINT -> case_CHECKPOINT(state, level, name)
      [] OTHER -> [raised |-> <<>>, state |-> state]

(***************************************************************************)
(* gdsl_verify: entry, one iteration of the scan, the terminal checks.     *)
(* A run is the call's position (pc), its return value, its locals and the *)
(* caller's report.                                                        *)
(***************************************************************************)
\* *report after memset(report, 0, sizeof(*report)); report->success = 0;
zeroed_report ==
    [success |-> FALSE,
     instruction_count |-> 0,
     error_count |-> 0,
     warning_count |-> 0,
     info_count |-> 0,
     diagnostic_count |-> 0,
     diagnostics |-> <<>>]

\* gdsl_verify up to the head of the while loop. With report == NULL the
\* call returns -1 and writes nothing.
verify_entry(run, report_null) ==
    IF report_null
    THEN [run EXCEPT !.rc = -1, !.pc = "returned"]
    ELSE IF stream.null /\ stream_length > 0
    THEN [run EXCEPT
            !.report = add_diagnostic(zeroed_report, 0,
                                      GDSL_VERIFY_SEVERITY_ERROR,
                                      "null stream pointer with non-zero length"),
            !.rc = 0,
            !.pc = "returned"]
    ELSE [run EXCEPT !.report = zeroed_report,
                     !.state = gdsl_state_reset,
                     !.offset = 0,
                     !.instruction_index = 0,
                     !.pc = "scan"]

\* Mutant of scan_iteration: an unknown opcode halts decoding.
scan_iteration_unknown_halts(run, level) ==
    LET opcode == stream.bytes[run.offset + 1]
        meta == gdsl_opcode_table(opcode)
        c == switch_opcode(opcode, run.state, level, meta.name)
    IN  IF meta.name = NoName
        THEN [run EXCEPT
                !.report = add_diagnostic(run.report, run.instruction_index,
                                          GDSL_VERIFY_SEVERITY_ERROR,
                                          "unknown opcode 0x" \o hex02(opcode)),
                !.pc = "break"]
        ELSE [run EXCEPT
                !.report = add_diagnostics(
                               [run.report EXCEPT !.instruction_count = @ + 1],
                               run.instruction_index, c.raised),
                !.state = c.state,
                !.offset = @ + meta.size,
                !.instruction_index = @ + 1]

\* One iteration of while (offset < length), for a run inside the loop.
scan_iteration(run, level) ==
    LET opcode == stream.bytes[run.offset + 1]
        meta == gdsl_opcode_table(opcode)
        c == switch_opcode(opcode, run.state, level, meta.name)
    IN  IF meta.name = NoName
        THEN [run EXCEPT
                !.report = add_diagnostic(run.report, run.instruction_index,
                                          GDSL_VERIFY_SEVERITY_ERROR,
                                          "unknown opcode 0x" \o hex02(opcode)),
                !.offset = @ + 1,
                !.instruction_index = @ + 1]
        ELSE IF meta.size = 0 \/ run.offset + meta.size > stream_length
        THEN [run EXCEPT
                !.report = add_diagnostic(run.report, run.instruction_index,
                                          GDSL_VERIFY_SEVERITY_ERROR,
                                          "truncated instruction for " \o meta.name),
                !.pc = "break"]
        ELSE [run EXCEPT
                !.report = add_diagnostics(
                               [run.report EXCEPT !.instruction_count = @ + 1],
                               run.instruction_index, c.raised),
                !.state = c.state,
                !.offset = @ + meta.size,
                !.instruction_index = @ + 1]

\* Mutant of terminal_checks: success is computed before the terminal
\* checks add their errors.
terminal_checks_success_first(run) ==
    LET open == IF run.state.snapshot_active
                THEN add_diagnostic(run.report, run.instruction_index,
                                    GDSL_VERIFY_SEVERITY_ERROR,
                                    "unterminated snapshot region")
                ELSE run.report
        unfinished == IF run.state.phase # GDSL_PHASE_FINISHED
                      THEN add_diagnostic(open, run.instruction_index,
                                          GDSL_VERIFY_SEVERITY_ERROR,
                                          "stream did not reach END_STREAM/END_PROGRAM")
                      ELSE open
    IN  [run EXCEPT
            !.report = [unfinished EXCEPT !.success = (run.report.error_count = 0)],
            !.rc = 0,
            !.pc = "returned"]

\* gdsl_verify after the loop: the two terminal checks, success, return 0.
terminal_checks(run) ==
    LET open == IF run.state.snapshot_active
                THEN add_diagnostic(run.report, run.instruction_index,
                                    GDSL_VERIFY_SEVERITY_ERROR,
                                    "unterminated snapshot region")
                ELSE run.report
        unfinished == IF run.state.phase # GDSL_PHASE_FINISHED
                      THEN add_diagnostic(open, run.instruction_index,
                                          GDSL_VERIFY_SEVERITY_ERROR,
                                          "stream did not reach END_STREAM/END_PROGRAM")
                      ELSE open
    IN  [run EXCEPT
            !.report = [unfinished EXCEPT !.success = (unfinished.error_count = 0)],
            !.rc = 0,
            !.pc = "returned"]

(***************************************************************************)
(* The caller of gdsl_verify: one stream, verified at each level.          *)
(***************************************************************************)
\* Byte values of a stream: every known opcode and one unknown byte.
OpcodeBytes == KnownOpcodes \cup {UNKNOWN_OPCODE}

\* Every stream of at most n bytes.
Streams(n) == UNION {[1..k -> OpcodeBytes] : k \in 0..n}

\* s repeated k times.
RECURSIVE Repeat(_, _)
Repeat(s, k) == IF k = 0 THEN <<>> ELSE s \o Repeat(s, k - 1)

\* The streams of tests/test_verify.c.
valid_program ==
    <<GDSL_OPCODE_BEGIN_STREAM, GDSL_OPCODE_BARRIER, GDSL_OPCODE_SUBMIT,
      GDSL_OPCODE_FENCE_WAIT, GDSL_OPCODE_END_STREAM, GDSL_OPCODE_END_PROGRAM>>

missing_begin ==
    <<GDSL_OPCODE_SUBMIT, GDSL_OPCODE_FENCE_WAIT, GDSL_OPCODE_END_STREAM,
      GDSL_OPCODE_END_PROGRAM>>

unknown_opcode ==
    <<GDSL_OPCODE_BEGIN_STREAM, UNKNOWN_OPCODE, GDSL_OPCODE_END_STREAM,
      GDSL_OPCODE_END_PROGRAM>>

snapshot_constraints ==
    <<GDSL_OPCODE_BEGIN_STREAM, GDSL_OPCODE_SUBMIT, GDSL_OPCODE_SNAPSHOT_BEGIN,
      GDSL_OPCODE_FENCE_WAIT, GDSL_OPCODE_SNAPSHOT_BEGIN,
      GDSL_OPCODE_SNAPSHOT_END, GDSL_OPCODE_FENCE_WAIT,
      GDSL_OPCODE_END_STREAM, GDSL_OPCODE_END_PROGRAM>>

TestStreams == {valid_program, missing_begin, unknown_opcode, snapshot_constraints}

\* One legal round of recording and submitting work, ending in phase Idle.
submit_round ==
    <<GDSL_OPCODE_BEGIN_STREAM, GDSL_OPCODE_BARRIER, GDSL_OPCODE_SUBMIT,
      GDSL_OPCODE_FENCE_WAIT>>

\* Streams long enough to fill the diagnostics array: rounds of submitted
\* work or unknown bytes, repeated, then any short stream.
LongStreams ==
    {Repeat(pattern, k) \o suffix :
        pattern \in {submit_round, <<UNKNOWN_OPCODE>>},
        k \in 1..(GDSL_VERIFY_MAX_DIAGNOSTICS + 1),
        suffix \in Streams(MaxSuffixLen)}

\* (stream, length) pairs a caller passes to gdsl_verify: a buffer with its
\* length, or NULL with a length.
VerifyArgs ==
    {[buf |-> Buffer(s), length |-> Len(s)] :
        s \in Streams(MaxStreamLen) \cup TestStreams \cup LongStreams}
    \cup {[buf |-> NullBuffer, length |-> n] : n \in {0, MaxStreamLen}}

\* Everything the diff functions work on.
diff_vars ==
    <<inputs, out, mem, bad_free, diff_locals, patch_locals, read_locals,
      ndestroy>>

\* The run at this level is inside the while loop.
InLoop(level) ==
    verify[level].pc = "scan" /\ verify[level].offset < stream_length

\* The run at this level has left the loop: its condition is false, or break.
AfterLoop(level) ==
    \/ verify[level].pc = "scan" /\ verify[level].offset >= stream_length
    \/ verify[level].pc = "break"

InitVerify ==
    /\ base = NullBuffer
    /\ base_length = 0
    /\ target = NullBuffer
    /\ target_length = 0
    /\ out = zero_result
    /\ mem = <<>>
    /\ bad_free = FALSE
    /\ rc_diff = 0
    /\ diff_ret = "uncalled"
    /\ ndestroy = 0
    /\ LocalsInit
    /\ \E s \in VerifyArgs :
          /\ stream = s.buf
          /\ stream_length = s.length
    /\ verify = [level \in Levels |-> uncalled_run]

\* gdsl_verify(stream, length, level, &report) is called at each level, each
\* call with a report of its own (or every call with report == NULL).
Verify ==
    /\ \A level \in Levels : verify[level].pc = "uncalled"
    /\ \E report_null \in BOOLEAN :
          verify' = [level \in Levels |-> verify_entry(verify[level], report_null)]
    /\ UNCHANGED <<diff_vars, stream, stream_length>>

\* Each call that is inside its loop runs one iteration.
Scan ==
    /\ \E level \in Levels : InLoop(level)
    /\ verify' = [level \in Levels |->
                    IF InLoop(level)
                    THEN scan_iteration(verify[level], level)
                    ELSE verify[level]]
    /\ UNCHANGED <<diff_vars, stream, stream_length>>

\* Each call that has left its loop runs the terminal checks and returns.
Finish ==
    /\ \A level \in Levels : ~InLoop(level)
    /\ \E level \in Levels : AfterLoop(level)
    /\ verify' = [level \in Levels |->
                    IF AfterLoop(level)
                    THEN terminal_checks(verify[level])
                    ELSE verify[level]]
    /\ UNCHANGED <<diff_vars, stream, stream_length>>

NextVerify == Verify \/ Scan \/ Finish

SpecVerify == InitVerify /\ [][NextVerify]_vars

(***************************************************************************)
(* Properties.                                                             *)
(***************************************************************************)
\* The chunk array and the payload of the result the caller holds.
Chunks == IF out.chunks = NULL THEN <<>> ELSE mem[out.chunks]

Payload == IF out.payload = NULL THEN <<>> ELSE mem[out.payload]

\* The bytes gdsl_patch handed back.
Patched == IF out_buffer = NULL THEN <<>> ELSE mem[out_buffer]

\* Neither pointer of the gdsl_diff call is NULL with a non-zero length.
ValidArgs ==
    /\ ~(base.null /\ base_length > 0)
    /\ ~(target.null /\ target_length > 0)

\* The caller holds the result of a successful gdsl_diff of base and target,
\* not destroyed since.
LiveResult == diff_ret \in {"unchanged", "done"} /\ ndestroy = 0

\* gdsl_patch ran and did not stop at its argument check.
PatchRan == patch_ret \notin {"uncalled", "null_arg"}

\* Sum of the lengths of the first n chunks of cs.
RECURSIVE LengthSum(_, _)
LengthSum(cs, n) == IF n = 0 THEN 0 ELSE LengthSum(cs, n - 1) + cs[n].length

\* Blocks the caller can still reach: the result's arrays and the patched buffer.
Reachable == {out.chunks, out.payload, out_buffer} \ {NULL}

\* C1: round trip. With valid arguments gdsl_diff fails only when malloc
\* does; gdsl_patch of base with that result fails only when malloc does, and
\* when it succeeds it returns exactly target_length bytes, equal to target
\* byte for byte (base shorter or longer than target, partial last page).
C1_RoundTrip ==
    /\ (diff_ret \notin {"uncalled", "null_out", "oom"} /\ ValidArgs)
          => rc_diff = 0
    /\ (LiveResult /\ PatchRan /\ patch_ret # "oom") => rc_patch = 0
    /\ (LiveResult /\ PatchRan /\ rc_patch = 0)
          => /\ out_length = target_length
             /\ Len(Patched) = target_length
             /\ Patched = target.bytes

\* C1 witness: a shrinking target that ends in a partial page, changed, was
\* diffed and patched back.
C1_Witness ==
    /\ LiveResult /\ rc_patch = 0 /\ patch_ret = "done"
    /\ out.chunk_count >= 1
    /\ target_length < base_length
    /\ target_length % GDSL_DEFAULT_PAGE_SIZE # 0
    /\ target_length > GDSL_DEFAULT_PAGE_SIZE

\* C2: in every result of gdsl_diff the chunks are in strictly increasing
\* page_index order and page_index * page_size + length <= target_length for
\* each of them.
C2_ChunksOrderedInRange ==
    /\ \A i \in 1..out.chunk_count :
          /\ i > 1 => Chunks[i - 1].page_index < Chunks[i].page_index
          /\ Chunks[i].page_index * out.header.page_size + Chunks[i].length
                <= out.header.target_length
    /\ LiveResult => out.header.target_length = target_length

\* C2 witness: base is at least a page longer than target, and the result
\* has a chunk.
C2_Witness ==
    /\ LiveResult
    /\ out.chunk_count >= 1
    /\ page_count_for_length(base_length, GDSL_DEFAULT_PAGE_SIZE)
          > page_count_for_length(target_length, GDSL_DEFAULT_PAGE_SIZE)

\* C3: in every state of the result (after a successful diff, a failed diff,
\* a destroy) each data_offset is the sum of the lengths of the chunks before
\* it, the lengths sum to payload_length, and header.chunk_count is
\* chunk_count.
C3_PrefixSums ==
    /\ \A i \in 1..out.chunk_count :
          Chunks[i].data_offset = LengthSum(Chunks, i - 1)
    /\ LengthSum(Chunks, out.chunk_count) = out.payload_length
    /\ out.header.chunk_count = out.chunk_count

\* C3 witness: a result with two chunks.
C3_Witness == LiveResult /\ out.chunk_count = 2 /\ Len(Payload) > 2

\* Offset off of the output lies inside the range some chunk writes.
Covered(off) ==
    \E i \in 1..out.chunk_count :
        /\ Chunks[i].page_index * patch_page_size(out) <= off
        /\ off < Chunks[i].page_index * patch_page_size(out) + Chunks[i].length

\* What the output holds at offset off where no chunk writes.
BaseOrZero(off) ==
    IF ~base.null /\ off < base_length THEN base.bytes[off + 1] ELSE 0

\* C4: for every diff gdsl_patch accepts and every base, the output has
\* target_length bytes and each byte at an offset no chunk covers is
\* base[offset] when offset < base_length and 0 otherwise (with no chunk:
\* base cut or zero-padded to target_length).
C4_UncoveredBytesFromBase ==
    (PatchRan /\ rc_patch = 0)
        => /\ out_length = out.header.target_length
           /\ Len(Patched) = out_length
           /\ \A off \in 0..(out_length - 1) :
                 ~Covered(off) => Patched[off + 1] = BaseOrZero(off)

\* C4 witness: an accepted diff with a chunk, over a base shorter than the
\* target; one uncovered offset lies inside base and one beyond it.
C4_Witness ==
    /\ PatchRan /\ rc_patch = 0 /\ patch_ret = "done"
    /\ out.chunk_count >= 1
    /\ ~base.null
    /\ \E off \in 0..(out_length - 1) : ~Covered(off) /\ off < base_length
    /\ \E off \in 0..(out_length - 1) : ~Covered(off) /\ off >= base_length

\* C5: gdsl_patch returns non-success for every diff whose header.page_size
\* is 0.
C5_ZeroPageSizeRejected ==
    (PatchRan /\ out.header.page_size = 0) => rc_patch # 0

\* C6: gdsl_patch returns non-success for every diff with a chunk whose
\* length exceeds page_size (here with page_size # 0, the case C5 leaves).
C6_OversizedChunkRejected ==
    (/\ PatchRan
     /\ out.header.page_size # 0
     /\ \E i \in 1..Len(Chunks) : Chunks[i].length > out.header.page_size)
        => rc_patch # 0

\* C7: when gdsl_patch returns non-success after its argument check,
\* *out_buffer is NULL, *out_length is 0 and the buffer allocated during the
\* call has been freed: the heap holds the diff's own arrays and nothing else.
C7_FailedPatchLeavesNothing ==
    (PatchRan /\ rc_patch # 0)
        => /\ out_buffer = NULL
           /\ out_length = 0
           /\ DOMAIN mem = Reachable
           /\ ~bad_free

\* C7 witness: the second chunk is out of range after the first one has
\* been written into the buffer.
C7_Witness ==
    /\ rc_patch # 0
    /\ patch_ret = "end_offset_range"
    /\ out.chunk_count = 2
    /\ apply_chunk(out, mem, patch_buffer_init(out.header.target_length),
                   Chunks[1]).ret = "ok"
    /\ apply_chunk(out, mem, patch_buffer_init(out.header.target_length),
                   Chunks[1]).buffer
          # patch_buffer_init(out.header.target_length)

\* The caller passed an array of its own to gdsl_read_changed_set.
ReadInto == read_ret \notin {"uncalled", "null_arg"} /\ ~out_pages.null

\* The capacity of that array.
Capacity == Len(out_pages.elems)

\* C8: with a destination capacity >= chunk_count, gdsl_read_changed_set
\* succeeds, returns count = chunk_count and writes exactly the chunks'
\* page_index values in chunk order, leaving the slots after them alone; for
\* the result of a gdsl_diff the list is strictly increasing.
C8_ChangedSetIsChunkPages ==
    (ReadInto /\ Capacity >= out.chunk_count)
        => /\ rc_read = 0
           /\ out_count = out.chunk_count
           /\ \A i \in 1..Capacity :
                 out_pages.elems[i] =
                     IF i <= out.chunk_count THEN Chunks[i].page_index
                                             ELSE Unwritten
           /\ \A i \in 2..out.chunk_count :
                 out_pages.elems[i - 1] < out_pages.elems[i]

\* C8 witness: a changed page that is not page 0, read into an array with
\* room to spare.
C8_Witness ==
    /\ ReadInto /\ rc_read = 0
    /\ out.chunk_count >= 1
    /\ Capacity > out.chunk_count
    /\ Chunks[1].page_index > 0

\* C9: when chunk_count exceeds the capacity, gdsl_read_changed_set fails,
\* writes no element of the destination array, and still stores the chunk
\* count through out_count.
C9_CountReturnedWhenTooSmall ==
    (ReadInto /\ out.chunk_count > Capacity)
        => /\ rc_read # 0
           /\ \A i \in 1..Capacity : out_pages.elems[i] = Unwritten
           /\ out_count = out.chunk_count

\* C10: a gdsl_diff_result_destroy call leaves chunks and payload NULL and
\* chunk_count, payload_length, header.chunk_count and header.target_length
\* 0, keeps header.version, page_size and flags, frees exactly the two
\* buffers the result owned and never a block that is not live; a call after
\* the first changes neither the result nor the heap.
C10_DestroyIdempotent ==
    [][ndestroy' = ndestroy + 1
          => /\ out'.chunks = NULL /\ out'.payload = NULL
             /\ out'.chunk_count = 0 /\ out'.payload_length = 0
             /\ out'.header.chunk_count = 0
             /\ out'.header.target_length = 0
             /\ out'.header.version = out.header.version
             /\ out'.header.page_size = out.header.page_size
             /\ out'.header.flags = out.header.flags
             /\ DOMAIN mem' = DOMAIN mem \ {out.chunks, out.payload}
             /\ ~bad_free'
             /\ ndestroy >= 1 => (out' = out /\ mem' = mem)]_vars

\* C10 witness: a result that held chunks and a payload has been destroyed
\* twice.
C10_Witness ==
    /\ ndestroy = 2
    /\ diff_ret = "done"
    /\ out.header.version = GDSL_DIFF_VERSION
    /\ DOMAIN mem = {}

\* Page page_index of the target holds an offset at or beyond base_length.
BeyondBase(page_index) ==
    /\ page_index * GDSL_DEFAULT_PAGE_SIZE < target_length
    /\ (page_index + 1) * GDSL_DEFAULT_PAGE_SIZE > base_length

\* C11: when target is longer than base, the result of gdsl_diff holds a
\* chunk for every target page with an offset >= base_length, whatever the
\* bytes of the page are.
C11_ChunkForEveryPageBeyondBase ==
    (LiveResult /\ ~target.null /\ target_length > base_length)
        => \A page_index \in 0..(total_pages - 1) :
              BeyondBase(page_index)
                  => \E i \in 1..out.chunk_count :
                        Chunks[i].page_index = page_index

(***************************************************************************)
(* Properties of gdsl_verify.                                              *)
(***************************************************************************)
\* The caller's report at a level, the call's verifier state, and whether
\* the call has returned with a report written.
Report(level) == verify[level].report

State(level) == verify[level].state

Returned(level) == verify[level].pc = "returned" /\ verify[level].rc = 0

\* C12: on every return of gdsl_verify with a non-NULL report, success is
\* true exactly when error_count is 0.
C12_SuccessIffNoErrors ==
    \A level \in Levels :
        Returned(level)
            => (Report(level).success <=> Report(level).error_count = 0)

\* C12 witness: one stream whose report is full of warnings and successful
\* at Domain level while its Phase level report holds an error.
C12_Witness ==
    /\ \A level \in Levels : Returned(level)
    /\ Report(GDSL_VERIFY_LEVEL_DOMAIN).success
    /\ Report(GDSL_VERIFY_LEVEL_DOMAIN).diagnostic_count = GDSL_VERIFY_MAX_DIAGNOSTICS
    /\ ~Report(GDSL_VERIFY_LEVEL_PHASE).success
    /\ Report(GDSL_VERIFY_LEVEL_PHASE).error_count >= 1

\* The call at this level has written the caller's report.
Written(level) == verify[level].pc \in {"scan", "break"} \/ Returned(level)

\* The part of a report add_diagnostic works on.
Stored(report) ==
    <<report.diagnostics, report.diagnostic_count, report.error_count,
      report.warning_count, report.info_count>>

\* C13: in every state of a report diagnostic_count is at most
\* GDSL_VERIFY_MAX_DIAGNOSTICS and error_count + warning_count + info_count
\* equals diagnostic_count (the number of stored diagnostics); and a step
\* taken with the array full changes neither the stored diagnostics nor any
\* counter of them.
C13_DiagnosticsCapped ==
    /\ [](\A level \in Levels :
            Written(level)
                => /\ Report(level).diagnostic_count <= GDSL_VERIFY_MAX_DIAGNOSTICS
                   /\ Len(Report(level).diagnostics) = Report(level).diagnostic_count
                   /\ Report(level).error_count + Report(level).warning_count
                          + Report(level).info_count
                      = Report(level).diagnostic_count)
    /\ [][\A level \in Levels :
            (/\ Written(level)
             /\ Report(level).diagnostic_count = GDSL_VERIFY_MAX_DIAGNOSTICS)
                => Stored(verify'[level].report) = Stored(Report(level))]_vars

\* C13 witness: a stream of unknown bytes, one more than the array holds,
\* has been scanned: the last error and the terminal error were dropped.
C13_Witness ==
    /\ Returned(GDSL_VERIFY_LEVEL_SYNTAX)
    /\ stream_length = GDSL_VERIFY_MAX_DIAGNOSTICS + 1
    /\ \A i \in 1..stream_length : stream.bytes[i] = UNKNOWN_OPCODE
    /\ Report(GDSL_VERIFY_LEVEL_SYNTAX).error_count = GDSL_VERIFY_MAX_DIAGNOSTICS

\* The call at this level has returned after scanning the stream (not by
\* the null-stream return, which never sets up a verifier state).
Scanned(level) == Returned(level) /\ ~(stream.null /\ stream_length > 0)

\* The report holds a diagnostic of severity Error.
HasError(report) ==
    \E i \in 1..Len(report.diagnostics) :
        report.diagnostics[i].severity = GDSL_VERIFY_SEVERITY_ERROR

\* C14: at every level, when the scan ends with phase # Finished or with
\* snapshot_active set, the report holds an Error and success is false.
C14_UnfinishedStreamFails ==
    \A level \in Levels :
        (/\ Scanned(level)
         /\ \/ State(level).phase # GDSL_PHASE_FINISHED
            \/ State(level).snapshot_active)
            => /\ HasError(Report(level))
               /\ ~Report(level).success

\* The Error diagnostics of a report, as (instruction index, message) pairs.
Errors(report) ==
    {<<report.diagnostics[i].instruction_index, report.diagnostics[i].message>> :
        i \in {j \in 1..Len(report.diagnostics) :
                 report.diagnostics[j].severity = GDSL_VERIFY_SEVERITY_ERROR}}

\* C15: for every stream, every Error reported at a level is reported at
\* every higher level, and success at a higher level implies success at
\* every lower level.
C15_LevelsMonotonic ==
    \A lower \in Levels, higher \in Levels :
        (lower < higher /\ Returned(lower) /\ Returned(higher))
            => /\ Errors(Report(lower)) \subseteq Errors(Report(higher))
               /\ Report(higher).success => Report(lower).success

\* The stream holds recognized opcodes only (each is one byte, so each
\* instruction is complete).
AllRecognized ==
    /\ ~stream.null
    /\ \A i \in 1..stream_length : stream.bytes[i] \in KnownOpcodes

\* C16: at Syntax level a stream made solely of recognized, complete
\* instructions yields no diagnostics and success, whatever phase and
\* snapshot state it ends in.
C16_SyntaxLevelFramingOnly ==
    (Returned(GDSL_VERIFY_LEVEL_SYNTAX) /\ AllRecognized)
        => /\ Report(GDSL_VERIFY_LEVEL_SYNTAX).diagnostic_count = 0
           /\ Report(GDSL_VERIFY_LEVEL_SYNTAX).success

\* The opcode the run at this level reads in its next iteration.
Opcode(level) == stream.bytes[verify[level].offset + 1]

\* The phases in which the transition table accepts an opcode; every phase
\* for the opcodes it does not restrict.
AllPhases == GDSL_PHASE_BUILD..GDSL_PHASE_FINISHED

LegalPhases(opcode) ==
    CASE opcode = GDSL_OPCODE_BEGIN_STREAM -> {GDSL_PHASE_BUILD, GDSL_PHASE_IDLE}
      [] opcode = GDSL_OPCODE_BARRIER -> {GDSL_PHASE_RECORD}
      [] opcode = GDSL_OPCODE_SUBMIT -> {GDSL_PHASE_RECORD}
      [] opcode = GDSL_OPCODE_FENCE_WAIT -> {GDSL_PHASE_SUBMITTED}
      [] opcode = GDSL_OPCODE_END_STREAM -> {GDSL_PHASE_IDLE, GDSL_PHASE_RECORD}
      [] opcode = GDSL_OPCODE_END_PROGRAM -> {GDSL_PHASE_FINISHED}
      [] OTHER -> AllPhases

\* The opcodes C17 is about.
PhasedOpcodes ==
    {GDSL_OPCODE_BEGIN_STREAM, GDSL_OPCODE_BARRIER, GDSL_OPCODE_SUBMIT,
     GDSL_OPCODE_FENCE_WAIT, GDSL_OPCODE_END_STREAM, GDSL_OPCODE_END_PROGRAM}

\* The messages "<OP> not allowed in <phase> phase" for one opcode.
PhaseNames == {"Build", "Record", "Submitted", "Idle", "Finished"}

TransitionMessages(opcode) ==
    {opcode_names[opcode + 1] \o " not allowed in " \o phase \o " phase" :
        phase \in PhaseNames}

\* How many of the diagnostics in seq are transition Errors of opcode.
TransitionErrors(seq, opcode) ==
    Cardinality({i \in 1..Len(seq) :
                    /\ seq[i].severity = GDSL_VERIFY_SEVERITY_ERROR
                    /\ seq[i].message \in TransitionMessages(opcode)})

\* What the next iteration at this level raises, stored or not.
RaisedNext(level) ==
    switch_opcode(Opcode(level), State(level), level,
                  gdsl_opcode_table(Opcode(level)).name).raised

\* The array has room for the transition Error when the code raises it:
\* BEGIN_STREAM raises its snapshot Error first.
RoomForTransitionError(level) ==
    Report(level).diagnostic_count
        + (IF Opcode(level) = GDSL_OPCODE_BEGIN_STREAM
              /\ State(level).snapshot_active THEN 1 ELSE 0)
    < GDSL_VERIFY_MAX_DIAGNOSTICS

\* C17: at Phase level and above, BARRIER, SUBMIT, FENCE_WAIT, END_PROGRAM,
\* BEGIN_STREAM and END_STREAM issued outside their legal phases each raise
\* exactly one "<OP> not allowed in <phase> phase" Error, stored at that
\* instruction's index while the array has room, and raise none in a legal
\* phase; the stream 01 02 03 04 05 06 returns error_count = 0 and a stream
\* that starts with SUBMIT returns failure.
C17_PhaseTransitionErrors ==
    /\ [][\A level \in GDSL_VERIFY_LEVEL_PHASE..GDSL_VERIFY_LEVEL_DOMAIN :
            (InLoop(level) /\ Opcode(level) \in PhasedOpcodes)
                => LET run == verify[level]
                       after == verify'[level].report.diagnostics
                       added == SubSeq(after, Len(run.report.diagnostics) + 1,
                                       Len(after))
                       legal == run.state.phase \in LegalPhases(Opcode(level))
                   IN  /\ TransitionErrors(RaisedNext(level), Opcode(level))
                             = IF legal THEN 0 ELSE 1
                       /\ legal => TransitionErrors(added, Opcode(level)) = 0
                       /\ (~legal /\ RoomForTransitionError(level))
                             => /\ TransitionErrors(added, Opcode(level)) = 1
                                /\ \A i \in 1..Len(added) :
                                      added[i].instruction_index
                                          = run.instruction_index]_vars
    /\ [](\A level \in GDSL_VERIFY_LEVEL_PHASE..GDSL_VERIFY_LEVEL_DOMAIN :
            Returned(level)
                => /\ stream.bytes = valid_program
                        => Report(level).error_count = 0
                   /\ (stream_length >= 1 /\ ~stream.null
                       /\ stream.bytes[1] = GDSL_OPCODE_SUBMIT)
                        => ~Report(level).success)

\* C17 witness: test_missing_begin has returned at Phase level with the
\* SUBMIT Error stored at index 0.
C17_Witness ==
    /\ Returned(GDSL_VERIFY_LEVEL_PHASE)
    /\ stream.bytes = missing_begin
    /\ <<0, "SUBMIT not allowed in Record phase">>
          \in Errors(Report(GDSL_VERIFY_LEVEL_PHASE))
    /\ ~Report(GDSL_VERIFY_LEVEL_PHASE).success

\* How many of the first n bytes of the stream are recognized opcodes.
RECURSIVE RecognizedBytes(_)
RecognizedBytes(n) ==
    IF n = 0 THEN 0
    ELSE RecognizedBytes(n - 1)
         + (IF stream.bytes[n] \in KnownOpcodes THEN 1 ELSE 0)

\* C18: an iteration that reads an unknown opcode raises one Error (stored
\* at the instruction's index while the array has room), leaves phase,
\* domain, snapshot_active and instruction_count as they were and goes on
\* with the next byte; every scan visits all the bytes of its stream and
\* returns instruction_count = the number of recognized bytes; and
\* 01 FF 05 06 ends in phase Finished with success = false.
C18_UnknownOpcodeDoesNotHalt ==
    /\ [][\A level \in Levels :
            (InLoop(level) /\ Opcode(level) \notin KnownOpcodes)
                => LET run == verify[level]
                       next == verify'[level]
                       diag == [instruction_index |-> run.instruction_index,
                                severity |-> GDSL_VERIFY_SEVERITY_ERROR,
                                message |-> "unknown opcode 0xff"]
                   IN  /\ next.state = run.state
                       /\ next.report.instruction_count
                             = run.report.instruction_count
                       /\ next.pc = "scan"
                       /\ next.offset = run.offset + 1
                       /\ next.instruction_index = run.instruction_index + 1
                       /\ next.report.warning_count = run.report.warning_count
                       /\ next.report.info_count = run.report.info_count
                       /\ IF run.report.diagnostic_count < GDSL_VERIFY_MAX_DIAGNOSTICS
                          THEN /\ next.report.diagnostics
                                     = Append(run.report.diagnostics, diag)
                               /\ next.report.error_count
                                     = run.report.error_count + 1
                          ELSE Stored(next.report) = Stored(run.report)]_vars
    /\ [](\A level \in Levels :
            Scanned(level)
                => /\ verify[level].offset = stream_length
                   /\ verify[level].instruction_index = stream_length
                   /\ Report(level).instruction_count
                         = RecognizedBytes(stream_length)
                   /\ stream.bytes = unknown_opcode
                        => /\ State(level).phase = GDSL_PHASE_FINISHED
                           /\ ~Report(level).success)

\* C18 witness: test_unknown_opcode has returned at Syntax level: three
\* validated instructions, one error, phase Finished.
C18_Witness ==
    /\ Returned(GDSL_VERIFY_LEVEL_SYNTAX)
    /\ stream.bytes = unknown_opcode
    /\ Report(GDSL_VERIFY_LEVEL_SYNTAX).instruction_count = 3
    /\ Report(GDSL_VERIFY_LEVEL_SYNTAX).error_count = 1
    /\ State(GDSL_VERIFY_LEVEL_SYNTAX).phase = GDSL_PHASE_FINISHED
    /\ ~Report(GDSL_VERIFY_LEVEL_SYNTAX).success

\* How many of the diagnostics in seq have the given severity.
OfSeverity(seq, severity) ==
    Cardinality({i \in 1..Len(seq) : seq[i].severity = severity})

\* BEGIN_STREAM, END_STREAM, END_PROGRAM.
pending_work_program ==
    <<GDSL_OPCODE_BEGIN_STREAM, GDSL_OPCODE_END_STREAM, GDSL_OPCODE_END_PROGRAM>>

\* C19: at Phase level and above END_STREAM in phase Record raises exactly
\* one Warning and no Error (the Warning is stored while the array has room)
\* and moves the phase to Finished; END_STREAM in phase Idle raises nothing;
\* BEGIN_STREAM, END_STREAM, END_PROGRAM returns success with
\* warning_count = 1.
C19_EndStreamInRecordWarns ==
    /\ [][\A level \in GDSL_VERIFY_LEVEL_PHASE..GDSL_VERIFY_LEVEL_DOMAIN :
            (/\ InLoop(level)
             /\ Opcode(level) = GDSL_OPCODE_END_STREAM
             /\ State(level).phase \in {GDSL_PHASE_RECORD, GDSL_PHASE_IDLE})
                => LET run == verify[level]
                       next == verify'[level]
                       in_record == run.state.phase = GDSL_PHASE_RECORD
                       room == run.report.diagnostic_count
                                   < GDSL_VERIFY_MAX_DIAGNOSTICS
                   IN  /\ OfSeverity(RaisedNext(level), GDSL_VERIFY_SEVERITY_WARNING)
                             = IF in_record THEN 1 ELSE 0
                       /\ Len(RaisedNext(level)) = IF in_record THEN 1 ELSE 0
                       /\ next.state.phase = GDSL_PHASE_FINISHED
                       /\ next.report.error_count = run.report.error_count
                       /\ next.report.warning_count
                             = run.report.warning_count
                               + (IF in_record /\ room THEN 1 ELSE 0)
                       /\ next.report.diagnostic_count
                             = run.report.diagnostic_count
                               + (IF in_record /\ room THEN 1 ELSE 0)]_vars
    /\ [](\A level \in GDSL_VERIFY_LEVEL_PHASE..GDSL_VERIFY_LEVEL_DOMAIN :
            (Returned(level) /\ stream.bytes = pending_work_program)
                => /\ Report(level).success
                   /\ Report(level).warning_count = 1
                   /\ Report(level).error_count = 0)

\* C19 witness: BEGIN_STREAM, END_STREAM, END_PROGRAM has returned at Phase
\* level with success and one warning.
C19_Witness ==
    /\ Returned(GDSL_VERIFY_LEVEL_PHASE)
    /\ stream.bytes = pending_work_program
    /\ Report(GDSL_VERIFY_LEVEL_PHASE).success
    /\ Report(GDSL_VERIFY_LEVEL_PHASE).warning_count = 1
    /\ State(GDSL_VERIFY_LEVEL_PHASE).phase = GDSL_PHASE_FINISHED

\* C20: at Phase level and above, SNAPSHOT_BEGIN issued in a phase other
\* than Idle raises the Error "SNAPSHOT_BEGIN not allowed in Idle phase".
C20_SnapshotBeginPhaseChecked ==
    [][\A level \in GDSL_VERIFY_LEVEL_PHASE..GDSL_VERIFY_LEVEL_DOMAIN :
         (/\ InLoop(level)
          /\ Opcode(level) = GDSL_OPCODE_SNAPSHOT_BEGIN
          /\ State(level).phase # GDSL_PHASE_IDLE)
            => /\ \E i \in 1..Len(RaisedNext(level)) :
                     RaisedNext(level)[i]
                         = Raise(GDSL_VERIFY_SEVERITY_ERROR,
                                 "SNAPSHOT_BEGIN not allowed in Idle phase")
               /\ Report(level).diagnostic_count < GDSL_VERIFY_MAX_DIAGNOSTICS
                     => verify'[level].report.error_count
                            > Report(level).error_count]_vars

\* C21: the state update of a recognized instruction happens at every level
\* and whether or not the instruction raised an Error: BEGIN_STREAM leaves
\* phase Record; SUBMIT phase Submitted and domain Device; FENCE_WAIT phase
\* Idle and domain Host; END_STREAM phase Finished; SNAPSHOT_BEGIN sets and
\* SNAPSHOT_END clears snapshot_active; NOP, END_PROGRAM and CHECKPOINT
\* change no component; and no instruction changes a component not named
\* for it here.
C21_StateUpdatesAlwaysOccur ==
    [][\A level \in Levels :
         (InLoop(level) /\ Opcode(level) \in KnownOpcodes
          /\ Opcode(level) # GDSL_OPCODE_BARRIER)
            => LET before == State(level)
                   after == verify'[level].state
                   opcode == Opcode(level)
               IN  after =
                     CASE opcode = GDSL_OPCODE_BEGIN_STREAM ->
                            [before EXCEPT !.phase = GDSL_PHASE_RECORD]
                       [] opcode = GDSL_OPCODE_SUBMIT ->
                            [before EXCEPT !.phase = GDSL_PHASE_SUBMITTED,
                                           !.domain = GDSL_DOMAIN_DEVICE]
                       [] opcode = GDSL_OPCODE_FENCE_WAIT ->
                            [before EXCEPT !.phase = GDSL_PHASE_IDLE,
                                           !.domain = GDSL_DOMAIN_HOST]
                       [] opcode = GDSL_OPCODE_END_STREAM ->
                            [before EXCEPT !.phase = GDSL_PHASE_FINISHED]
                       [] opcode = GDSL_OPCODE_SNAPSHOT_BEGIN ->
                            [before EXCEPT !.snapshot_active = TRUE]
                       [] opcode = GDSL_OPCODE_SNAPSHOT_END ->
                            [before EXCEPT !.snapshot_active = FALSE]
                       [] OTHER -> before]_vars

\* C21 witness: FENCE_WAIT as the first instruction at Phase level raised
\* its Error and the phase is Idle all the same.
C21_Witness ==
    /\ verify[GDSL_VERIFY_LEVEL_PHASE].pc = "scan"
    /\ verify[GDSL_VERIFY_LEVEL_PHASE].offset = 1
    /\ stream.bytes[1] = GDSL_OPCODE_FENCE_WAIT
    /\ Report(GDSL_VERIFY_LEVEL_PHASE).error_count = 1
    /\ State(GDSL_VERIFY_LEVEL_PHASE).phase = GDSL_PHASE_IDLE

\* The positions among the first n bytes of the stream that hold a snapshot
\* opcode.
SnapshotPositions(n) ==
    {i \in 1..n : stream.bytes[i] \in {GDSL_OPCODE_SNAPSHOT_BEGIN,
                                       GDSL_OPCODE_SNAPSHOT_END}}

\* The last snapshot opcode among the first n bytes is a SNAPSHOT_BEGIN.
LastSnapshotIsBegin(n) ==
    /\ SnapshotPositions(n) # {}
    /\ LET last == CHOOSE i \in SnapshotPositions(n) :
                      \A j \in SnapshotPositions(n) : j <= i
       IN  stream.bytes[last] = GDSL_OPCODE_SNAPSHOT_BEGIN

\* The Error of the first terminal check, at the final instruction index.
UnterminatedSnapshot(level) ==
    <<verify[level].instruction_index, "unterminated snapshot region">>

\* The Error of a SNAPSHOT_BEGIN inside a snapshot.
NestedSnapshot ==
    Raise(GDSL_VERIFY_SEVERITY_ERROR, "nested SNAPSHOT_BEGIN not allowed")

\* C22: snapshot regions are not depth-counted. At every level and at every
\* point of the scan snapshot_active is true exactly when the last snapshot
\* opcode scanned so far is a SNAPSHOT_BEGIN, so one SNAPSHOT_END closes the
\* region however many SNAPSHOT_BEGINs came before it. The terminal Error
\* "unterminated snapshot region" is reported only when the last snapshot
\* opcode of the stream is a SNAPSHOT_BEGIN, and always then while the
\* diagnostics array has room. At Domain level SNAPSHOT_BEGIN raises the
\* nested-snapshot Error exactly when a snapshot is active (stored while the
\* array has room). The stream 01 03 07 04 07 08 04 05 06 at Domain level
\* reports the nested SNAPSHOT_BEGIN and no unterminated snapshot.
C22_SnapshotsNotDepthCounted ==
    /\ [](\A level \in Levels :
            /\ (verify[level].pc = "scan" \/ Scanned(level))
                  => (State(level).snapshot_active
                         <=> LastSnapshotIsBegin(verify[level].offset))
            /\ (Scanned(level)
                /\ UnterminatedSnapshot(level) \in Errors(Report(level)))
                  => LastSnapshotIsBegin(stream_length))
    /\ [][\A level \in Levels :
            /\ (AfterLoop(level)
                /\ Report(level).diagnostic_count < GDSL_VERIFY_MAX_DIAGNOSTICS
                /\ LastSnapshotIsBegin(stream_length))
                  => UnterminatedSnapshot(level) \in Errors(verify'[level].report)
            /\ (InLoop(level) /\ Opcode(level) = GDSL_OPCODE_SNAPSHOT_END)
                  => ~verify'[level].state.snapshot_active]_vars
    /\ [][(InLoop(GDSL_VERIFY_LEVEL_DOMAIN)
           /\ Opcode(GDSL_VERIFY_LEVEL_DOMAIN) = GDSL_OPCODE_SNAPSHOT_BEGIN)
            => LET run == verify[GDSL_VERIFY_LEVEL_DOMAIN]
                   next == verify'[GDSL_VERIFY_LEVEL_DOMAIN]
                   raised == RaisedNext(GDSL_VERIFY_LEVEL_DOMAIN)
                   nested == {i \in 1..Len(raised) : raised[i] = NestedSnapshot}
               IN  /\ Cardinality(nested)
                         = IF run.state.snapshot_active THEN 1 ELSE 0
                   /\ (run.state.snapshot_active
                       /\ run.report.diagnostic_count < GDSL_VERIFY_MAX_DIAGNOSTICS)
                         => <<run.instruction_index, NestedSnapshot.message>>
                               \in Errors(next.report)]_vars
    /\ []((Returned(GDSL_VERIFY_LEVEL_DOMAIN)
           /\ stream.bytes = snapshot_constraints)
            => LET report == Report(GDSL_VERIFY_LEVEL_DOMAIN)
               IN  /\ <<4, NestedSnapshot.message>> \in Errors(report)
                   /\ \A e \in Errors(report) :
                         e[2] # "unterminated snapshot region"
                   /\ ~report.success)

\* C22 witness: the test stream, in which two SNAPSHOT_BEGINs precede the one
\* SNAPSHOT_END, has returned at Domain level with the nested-snapshot Error
\* stored and the snapshot closed.
C22_Witness ==
    /\ Returned(GDSL_VERIFY_LEVEL_DOMAIN)
    /\ stream.bytes = snapshot_constraints
    /\ <<4, NestedSnapshot.message>> \in Errors(Report(GDSL_VERIFY_LEVEL_DOMAIN))
    /\ ~State(GDSL_VERIFY_LEVEL_DOMAIN).snapshot_active

\* The Warning of a BARRIER issued in the host domain.
ImplicitPromotion ==
    Raise(GDSL_VERIFY_SEVERITY_WARNING,
          "BARRIER issued outside device domain; assuming implicit promotion")

\* How many promotion Warnings the diagnostics in seq hold.
Promotions(seq) ==
    Cardinality({i \in 1..Len(seq) :
                   /\ seq[i].severity = ImplicitPromotion.severity
                   /\ seq[i].message = ImplicitPromotion.message})

\* BEGIN_STREAM and two BARRIERs.
two_barriers ==
    <<GDSL_OPCODE_BEGIN_STREAM, GDSL_OPCODE_BARRIER, GDSL_OPCODE_BARRIER>>

\* C23: at Domain level a BARRIER in the host domain raises exactly one
\* "implicit promotion" Warning (stored while the array has room) and sets
\* the domain to Device; a BARRIER in the device domain raises no Warning;
\* and the domain returns from Device to Host only by a FENCE_WAIT. Below
\* Domain level a BARRIER raises no Warning and leaves the domain alone.
\* The stream 01 02 03 04 05 06 at Domain level returns success with no
\* errors and one warning.
C23_BarrierPromotesOnce ==
    /\ [][(InLoop(GDSL_VERIFY_LEVEL_DOMAIN)
           /\ Opcode(GDSL_VERIFY_LEVEL_DOMAIN) = GDSL_OPCODE_BARRIER)
            => LET run == verify[GDSL_VERIFY_LEVEL_DOMAIN]
                   next == verify'[GDSL_VERIFY_LEVEL_DOMAIN]
                   raised == RaisedNext(GDSL_VERIFY_LEVEL_DOMAIN)
                   in_host == run.state.domain = GDSL_DOMAIN_HOST
                   room == run.report.diagnostic_count + Len(raised)
                               <= GDSL_VERIFY_MAX_DIAGNOSTICS
               IN  /\ Promotions(raised) = IF in_host THEN 1 ELSE 0
                   /\ OfSeverity(raised, GDSL_VERIFY_SEVERITY_WARNING)
                         = Promotions(raised)
                   /\ next.state.domain = GDSL_DOMAIN_DEVICE
                   /\ room => Promotions(next.report.diagnostics)
                                = Promotions(run.report.diagnostics)
                                  + (IF in_host THEN 1 ELSE 0)]_vars
    /\ [][\A level \in Levels :
            (/\ InLoop(level)
             /\ State(level).domain = GDSL_DOMAIN_DEVICE
             /\ verify'[level].state.domain = GDSL_DOMAIN_HOST)
                => Opcode(level) = GDSL_OPCODE_FENCE_WAIT]_vars
    /\ [][\A level \in GDSL_VERIFY_LEVEL_SYNTAX..GDSL_VERIFY_LEVEL_PHASE :
            (InLoop(level) /\ Opcode(level) = GDSL_OPCODE_BARRIER)
                => /\ OfSeverity(RaisedNext(level),
                                 GDSL_VERIFY_SEVERITY_WARNING) = 0
                   /\ verify'[level].report.warning_count
                         = Report(level).warning_count
                   /\ verify'[level].state.domain = State(level).domain]_vars
    /\ []((Returned(GDSL_VERIFY_LEVEL_DOMAIN) /\ stream.bytes = valid_program)
            => /\ Report(GDSL_VERIFY_LEVEL_DOMAIN).success
               /\ Report(GDSL_VERIFY_LEVEL_DOMAIN).error_count = 0
               /\ Report(GDSL_VERIFY_LEVEL_DOMAIN).warning_count = 1)

\* C23 witness: BEGIN_STREAM and two BARRIERs have been scanned at Domain
\* level: the domain is Device and one promotion Warning is stored.
C23_Witness ==
    /\ verify[GDSL_VERIFY_LEVEL_DOMAIN].pc = "scan"
    /\ verify[GDSL_VERIFY_LEVEL_DOMAIN].offset = 3
    /\ stream.bytes = two_barriers
    /\ State(GDSL_VERIFY_LEVEL_DOMAIN).domain = GDSL_DOMAIN_DEVICE
    /\ Promotions(Report(GDSL_VERIFY_LEVEL_DOMAIN).diagnostics) = 1
    /\ Report(GDSL_VERIFY_LEVEL_DOMAIN).warning_count = 1

(***************************************************************************)
(* gdsl_diff, page by page.                                                *)
(***************************************************************************)
\* The length a chunk for the page must have.
ChunkLength(page_index) ==
    min_size(GDSL_DEFAULT_PAGE_SIZE,
             target_length - page_index * GDSL_DEFAULT_PAGE_SIZE)

\* Some byte of the page in target differs from the byte of base at the same
\* offset, or from zero where base has ended.
DiffersFromBase(page_index) ==
    \E i \in 0..(ChunkLength(page_index) - 1) :
        LET at == page_index * GDSL_DEFAULT_PAGE_SIZE + i
        IN  target.bytes[at + 1]
                # (IF at < base_length THEN base.bytes[at + 1] ELSE 0)

\* The pages that start before target_length and differ from base.
ChangedPages ==
    {page_index \in 0..MaxPages :
        /\ page_index * GDSL_DEFAULT_PAGE_SIZE < target_length
        /\ DiffersFromBase(page_index)}

\* C24: the result of gdsl_diff holds a chunk for page p exactly when p
\* starts before target_length and some byte of the page in target differs
\* from base (from zero beyond base_length), one chunk per such page; each
\* chunk has length min(page_size, target_length - p * page_size) and its
\* slice of the payload equals the bytes of target on the page. The diff of
\* a buffer with itself has no chunks and an empty payload.
C24_ChunkIffPageDiffers ==
    LiveResult
        => /\ {Chunks[k].page_index : k \in 1..out.chunk_count} = ChangedPages
           /\ out.chunk_count = Cardinality(ChangedPages)
           /\ \A k \in 1..out.chunk_count :
                 LET chunk == Chunks[k]
                     off == chunk.page_index * GDSL_DEFAULT_PAGE_SIZE
                 IN  /\ chunk.length = ChunkLength(chunk.page_index)
                     /\ chunk.data_offset + chunk.length <= out.payload_length
                     /\ \A i \in 0..(chunk.length - 1) :
                           Payload[chunk.data_offset + i + 1]
                               = target.bytes[off + i + 1]
           /\ (base = target /\ base_length = target_length)
                 => /\ out.chunk_count = 0
                    /\ out.header.chunk_count = 0
                    /\ out.payload_length = 0
                    /\ Payload = <<>>

\* C24 witness: a target of one page and one byte whose first page equals
\* base and whose one-byte last page does not: the result holds the one
\* chunk, for page 1, of length 1.
C24_Witness ==
    /\ LiveResult
    /\ target_length = GDSL_DEFAULT_PAGE_SIZE + 1
    /\ base_length >= GDSL_DEFAULT_PAGE_SIZE
    /\ out.chunk_count = 1
    /\ Chunks[1].page_index = 1
    /\ Chunks[1].length = 1
    /\ Payload[1] = target.bytes[target_length]

(***************************************************************************)
(* gdsl_verify, one stream at two levels.                                  *)
(***************************************************************************)
\* What a run has in common with the runs of the same stream at the other
\* levels after the same number of loop iterations.
Trajectory(level) ==
    [pc |-> verify[level].pc,
     offset |-> verify[level].offset,
     instruction_index |-> verify[level].instruction_index,
     instruction_count |-> Report(level).instruction_count,
     phase |-> State(level).phase,
     snapshot_active |-> State(level).snapshot_active]

\* C25: for any stream verified at two levels, the phase and snapshot_active
\* after each instruction, the instruction count, the instruction index and
\* the offset reached are the same in both runs; the domain and the
\* diagnostics are not compared.
C25_TrajectoryIndependentOfLevel ==
    \A first \in Levels, second \in Levels :
        (Written(first) /\ Written(second))
            => Trajectory(first) = Trajectory(second)

\* C25 witness: after a first BARRIER the runs at Phase and Domain level
\* agree on phase and snapshot_active and differ in domain and diagnostics.
C25_Witness ==
    /\ verify[GDSL_VERIFY_LEVEL_PHASE].pc = "scan"
    /\ verify[GDSL_VERIFY_LEVEL_DOMAIN].pc = "scan"
    /\ verify[GDSL_VERIFY_LEVEL_DOMAIN].instruction_index = 1
    /\ stream.bytes[1] = GDSL_OPCODE_BARRIER
    /\ State(GDSL_VERIFY_LEVEL_PHASE).domain = GDSL_DOMAIN_HOST
    /\ State(GDSL_VERIFY_LEVEL_DOMAIN).domain = GDSL_DOMAIN_DEVICE
    /\ Report(GDSL_VERIFY_LEVEL_PHASE).diagnostic_count = 1
    /\ Report(GDSL_VERIFY_LEVEL_DOMAIN).diagnostic_count = 2
    /\ State(GDSL_VERIFY_LEVEL_PHASE).phase = State(GDSL_VERIFY_LEVEL_DOMAIN).phase

====
